---- MODULE Spec2Model ----
(***************************************************************************)
(* ClarityAI prompt-enhancement core: the local corrector                  *)
(* (src/src/autocorrect.ts), the remote client (llmClient.ts) and the      *)
(* orchestrator improvePrompt.  Text is a sequence of one-character        *)
(* strings, so that every regular expression of the source is modelled by  *)
(* the scan it performs.                                                   *)
(***************************************************************************)
EXTENDS Integers, Sequences, FiniteSets, TLC

(* ------------------------------------------------------------------ *)
(* Characters                                                         *)
(* ------------------------------------------------------------------ *)
Lower == <<"a","b","c","d","e","f","g","h","i","j","k","l","m",
           "n","o","p","q","r","s","t","u","v","w","x","y","z">>
Upper == <<"A","B","C","D","E","F","G","H","I","J","K","L","M",
           "N","O","P","Q","R","S","T","U","V","W","X","Y","Z">>
LowerSet == {Lower[i] : i \in 1..26}
UpperSet == {Upper[i] : i \in 1..26}
DigitSet == {"0","1","2","3","4","5","6","7","8","9"}
\* \w of a JavaScript regular expression
WordChars == LowerSet \cup UpperSet \cup DigitSet \cup {"_"}
\* \s of a JavaScript regular expression (the members the model uses)
WhiteSpace == {" ", "\n", "\t"}
Vowels == {"a","e","i","o","u","A","E","I","O","U"}
\* the quote characters of the cleaning pattern; the back quote, which a
\* TLA+ string cannot hold, is left out of the alphabet
QuoteChars == {"\"", "'"}

LetterIndex(c) == CHOOSE i \in 1..26 : Lower[i] = c \/ Upper[i] = c
toUpperChar(c) == IF c \in LowerSet THEN Upper[LetterIndex(c)] ELSE c
toLowerChar(c) == IF c \in UpperSet THEN Lower[LetterIndex(c)] ELSE c
\* String.prototype.toUpperCase / toLowerCase
toUpperCase(s) == [i \in 1..Len(s) |-> toUpperChar(s[i])]
toLowerCase(s) == [i \in 1..Len(s) |-> toLowerChar(s[i])]

IsWordChar(c) == c \in WordChars
IsSpace(c) == c \in WhiteSpace

\* s.slice(i) with a 1-based index
Drop(s, i) == SubSeq(s, i, Len(s))

\* true of every text; testing it makes TLC compute v before going on,
\* which keeps the evaluation of a chain of passes shallow
Computed(v) == Len(v) >= 0

\* the least member of a non-empty set of positions
MinOf(S) == CHOOSE x \in S : \A y \in S : x <= y
\* the greatest member of a non-empty set of positions
MaxOf(S) == CHOOSE x \in S : \A y \in S : x >= y

\* number of consecutive characters of s from position i on that belong
\* to the class cls
RunFrom(s, i, cls) ==
  IF i > Len(s) THEN 0
  ELSE LET stops == {j \in i..Len(s) : s[j] \notin cls}
       IN  IF stops = {} THEN Len(s) - i + 1 ELSE MinOf(stops) - i

\* number of consecutive characters of s up to position i that belong to
\* the class cls
RunBack(s, i, cls) ==
  IF i < 1 THEN 0
  ELSE LET stops == {j \in 1..i : s[j] \notin cls}
       IN  IF stops = {} THEN i ELSE i - MaxOf(stops)

\* number of consecutive \s characters of s starting at position i
WsRun(s, i) == RunFrom(s, i, WhiteSpace)

\* number of consecutive \s characters of s ending at position i
WsRunBack(s, i) == RunBack(s, i, WhiteSpace)

\* the result of trying a pattern at one position: the length of the match
\* (0 if there is none) and the text that replaces it
NoMatch == [len |-> 0, out |-> <<>>]
Match(n, replacement) == [len |-> n, out |-> replacement]

\* the least position from i on that belongs to at, 0 if there is none
FirstFrom(at, i) ==
  LET found == {j \in at : j >= i}
  IN  IF found = {} THEN 0 ELSE MinOf(found)

\* the text from position i on with every match replaced: m[j] is the
\* result of the pattern at position j; the matches are taken left to
\* right without overlap and the text between two matches is copied
RECURSIVE splice(_, _, _)
splice(s, i, m) ==
  LET j == FirstFrom({k \in i..Len(s) : m[k].len > 0}, i)
  IN  IF j = 0 THEN Drop(s, i)
      ELSE SubSeq(s, i, j - 1) \o m[j].out \o splice(s, j + m[j].len, m)

\* String.prototype.replace with a pattern of flag g
replaceAll(s, m) == splice(s, 1, m)

\* String.prototype.trim
trim(s) ==
  LET a == WsRun(s, 1)
  IN  IF a = Len(s) THEN <<>>
      ELSE SubSeq(s, a + 1, Len(s) - WsRunBack(s, Len(s)))

\* \b : a word boundary just before position p (1..Len(s)+1)
WordBoundary(s, p) ==
  LET before == p > 1 /\ IsWordChar(s[p - 1])
      after  == p <= Len(s) /\ IsWordChar(s[p])
  IN  before # after

\* the literal lit occurs in s at position i
LitAt(s, lit, i) ==
  /\ i + Len(lit) - 1 <= Len(s)
  /\ \A k \in 1..Len(lit) : s[i + k - 1] = lit[k]

\* the literal lit occurs in s at position i, letter case ignored (flag i)
LitAtNoCase(s, lit, i) ==
  /\ i + Len(lit) - 1 <= Len(s)
  /\ \A k \in 1..Len(lit) : toLowerChar(s[i + k - 1]) = toLowerChar(lit[k])

(* ------------------------------------------------------------------ *)
(* COMMON_TYPOS, in Object.entries order                              *)
(* ------------------------------------------------------------------ *)
COMMON_TYPOS ==
  <<
     << <<"f","u","n","c","t","o","i","n">>, <<"f","u","n","c","t","i","o","n">> >>,
     << <<"f","u","c","n","t","i","o","n">>, <<"f","u","n","c","t","i","o","n">> >>,
     << <<"f","u","n","t","i","o","n">>, <<"f","u","n","c","t","i","o","n">> >>,
     << <<"r","e","t","r","u","n">>, <<"r","e","t","u","r","n">> >>,
     << <<"l","e","n","g","h","t">>, <<"l","e","n","g","t","h">> >>,
     << <<"h","e","i","g","t","h">>, <<"h","e","i","g","h","t">> >>,
     << <<"w","i","d","h","t">>, <<"w","i","d","t","h">> >>,
     << <<"c","a","l","u","l","a","t","e">>, <<"c","a","l","c","u","l","a","t","e">> >>,
     << <<"c","a","l","u","c","l","a","t","e">>, <<"c","a","l","c","u","l","a","t","e">> >>,
     << <<"c","a","l","c","u","a","l","t","e">>, <<"c","a","l","c","u","l","a","t","e">> >>,
     << <<"v","a","r","a","i","b","l","e">>, <<"v","a","r","i","a","b","l","e">> >>,
     << <<"v","a","r","i","a","b","l">>, <<"v","a","r","i","a","b","l","e">> >>,
     << <<"v","a","r","i","a","b","e","l">>, <<"v","a","r","i","a","b","l","e">> >>,
     << <<"c","l","a","s","s","s">>, <<"c","l","a","s","s">> >>,
     << <<"m","e","t","o","d">>, <<"m","e","t","h","o","d">> >>,
     << <<"m","e","t","h","d","o">>, <<"m","e","t","h","o","d">> >>,
     << <<"a","r","a","y">>, <<"a","r","r","a","y">> >>,
     << <<"a","r","r","y">>, <<"a","r","r","a","y">> >>,
     << <<"o","b","j","c","t">>, <<"o","b","j","e","c","t">> >>,
     << <<"o","b","j","e","t">>, <<"o","b","j","e","c","t">> >>,
     << <<"s","t","i","r","n","g">>, <<"s","t","r","i","n","g">> >>,
     << <<"s","t","r","n","i","g">>, <<"s","t","r","i","n","g">> >>,
     << <<"s","t","r","i","g","n">>, <<"s","t","r","i","n","g">> >>,
     << <<"b","o","l","e","a","n">>, <<"b","o","o","l","e","a","n">> >>,
     << <<"b","o","o","l","e","n">>, <<"b","o","o","l","e","a","n">> >>,
     << <<"i","n","t","e","r","g","e","r">>, <<"i","n","t","e","g","e","r">> >>,
     << <<"i","n","t","e","g","r">>, <<"i","n","t","e","g","e","r">> >>,
     << <<"p","l","e","s","e">>, <<"p","l","e","a","s","e">> >>,
     << <<"p","l","e","a","e">>, <<"p","l","e","a","s","e">> >>,
     << <<"p","l","e","a","s">>, <<"p","l","e","a","s","e">> >>,
     << <<"w","r","i","t">>, <<"w","r","i","t","e">> >>,
     << <<"w","r","i","e","t">>, <<"w","r","i","t","e">> >>,
     << <<"w","i","r","t","e">>, <<"w","r","i","t","e">> >>,
     << <<"t","a","h","t">>, <<"t","h","a","t">> >>,
     << <<"t","a","t","h">>, <<"t","h","a","t">> >>,
     << <<"t","h","t","a">>, <<"t","h","a","t">> >>,
     << <<"t","h","a">>, <<"t","h","a","t">> >>,
     << <<"f","o">>, <<"f","o","r">> >>,
     << <<"f","r","o">>, <<"f","o","r">> >>,
     << <<"o","f","r">>, <<"f","o","r">> >>,
     << <<"a","n">>, <<"a","n","d">> >>,
     << <<"n","a","d">>, <<"a","n","d">> >>,
     << <<"a","d","n">>, <<"a","n","d">> >>,
     << <<"t","e","h">>, <<"t","h","e">> >>,
     << <<"h","t","e">>, <<"t","h","e">> >>,
     << <<"h","e","t">>, <<"t","h","e">> >>,
     << <<"w","h","i","t">>, <<"w","i","t","h">> >>,
     << <<"w","i","h","t">>, <<"w","i","t","h">> >>,
     << <<"w","t","i","h">>, <<"w","i","t","h">> >>,
     << <<"w","i","c","h">>, <<"w","h","i","c","h">> >>,
     << <<"w","h","c","i","h">>, <<"w","h","i","c","h">> >>,
     << <<"h","w","e","r","e">>, <<"w","h","e","r","e">> >>,
     << <<"w","h","e","r">>, <<"w","h","e","r","e">> >>,
     << <<"w","h","r","e">>, <<"w","h","e","r","e">> >>,
     << <<"w","e","h","n">>, <<"w","h","e","n">> >>,
     << <<"w","h","n">>, <<"w","h","e","n">> >>,
     << <<"w","a","h","t">>, <<"w","h","a","t">> >>,
     << <<"h","w","a","t">>, <<"w","h","a","t">> >>,
     << <<"w","h","a">>, <<"w","h","a","t">> >>,
     << <<"s","r","i","p","t">>, <<"s","c","r","i","p","t">> >>,
     << <<"s","c","i","r","p","t">>, <<"s","c","r","i","p","t">> >>,
     << <<"s","r","c","i","p","t">>, <<"s","c","r","i","p","t">> >>,
     << <<"o","p","n","e","s">>, <<"o","p","e","n","s">> >>,
     << <<"o","p","n","e">>, <<"o","p","e","n">> >>,
     << <<"o","e","p","n">>, <<"o","p","e","n">> >>,
     << <<"f","i","b","o","n","n","a","c","i">>, <<"f","i","b","o","n","a","c","c","i">> >>,
     << <<"f","i","b","o","n","a","c","i">>, <<"f","i","b","o","n","a","c","c","i">> >>,
     << <<"f","i","b","o","n","c","c","i">>, <<"f","i","b","o","n","a","c","c","i">> >>,
     << <<"u","r","l">>, <<"U","R","L">> >>
  >>

(* ------------------------------------------------------------------ *)
(* fixTypos                                                           *)
(* ------------------------------------------------------------------ *)
\* a replacer that ignores the case pattern of the match
preserveCase_Lower(match, correction) == toLowerCase(correction)

\* the replacer callback of fixTypos: keep the case pattern of the match
preserveCase(match, correction) ==
  IF match = toUpperCase(match)
    THEN toUpperCase(correction)
    ELSE IF match[1] = toUpperChar(match[1])
      THEN <<toUpperChar(correction[1])>> \o toLowerCase(Drop(correction, 2))
      ELSE toLowerCase(correction)

\* a pattern without the two \b anchors
typoMatchAt_NoBoundary(text, typo, i) == LitAtNoCase(text, typo, i)

\* new RegExp('\\b' + typo + '\\b', 'gi') matches at position i
typoMatchAt(text, typo, i) ==
  /\ LitAtNoCase(text, typo, i)
  /\ WordBoundary(text, i)
  /\ WordBoundary(text, i + Len(typo))

\* the typo pattern at position i and what the replacer returns for it
typoAt(text, typo, correction, i) ==
  IF typoMatchAt(text, typo, i)
    THEN Match(Len(typo),
               preserveCase(SubSeq(text, i, i + Len(typo) - 1), correction))
    ELSE NoMatch

\* corrected.replace(regex, replacer) for one table entry
replaceTypo(text, typo, correction) ==
  replaceAll(text, [i \in 1..Len(text) |-> typoAt(text, typo, correction, i)])

\* the for loop over Object.entries(COMMON_TYPOS), entries lo to hi in order
RECURSIVE fixTyposRange(_, _, _)
fixTyposRange(text, lo, hi) ==
  IF lo = hi
    THEN replaceTypo(text, COMMON_TYPOS[lo][1], COMMON_TYPOS[lo][2])
    ELSE LET mid   == (lo + hi) \div 2
             first == fixTyposRange(text, lo, mid)
         IN  IF Computed(first) THEN fixTyposRange(first, mid + 1, hi) ELSE text

fixTypos(text) == fixTyposRange(text, 1, Len(COMMON_TYPOS))

(* ------------------------------------------------------------------ *)
(* GRAMMAR_PATTERNS, one operator per table row                       *)
(* ------------------------------------------------------------------ *)
\* /\ba\s+([aeiouAEIOU])/g -> 'an $1', tried at position i
grammarAAnAt(s, i) ==
  LET w == WsRun(s, i + 1)
      j == i + 1 + w
  IN  IF /\ s[i] = "a"
         /\ WordBoundary(s, i)
         /\ w >= 1
         /\ j <= Len(s)
         /\ s[j] \in Vowels
      THEN Match(w + 2, <<"a", "n", " ", s[j]>>)
      ELSE NoMatch

grammarAAn(s) == replaceAll(s, [i \in 1..Len(s) |-> grammarAAnAt(s, i)])

\* /\ban\s+([^aeiouAEIOU])/g -> 'a $1', tried at position i.
\* \s+ is greedy and gives back one character when the run is followed by
\* a vowel or by the end of the text: [^aeiouAEIOU] then takes the last \s.
grammarAnAAt(s, i) ==
  LET w == WsRun(s, i + 2)
      j == i + 2 + w
      head == LitAt(s, <<"a", "n">>, i) /\ WordBoundary(s, i)
  IN  IF head /\ w >= 1 /\ j <= Len(s) /\ s[j] \notin Vowels
        THEN Match(w + 3, <<"a", " ", s[j]>>)
      ELSE IF head /\ w >= 2
        THEN Match(w + 2, <<"a", " ", s[j - 1]>>)
      ELSE NoMatch

grammarAnA(s) == replaceAll(s, [i \in 1..Len(s) |-> grammarAnAAt(s, i)])

\* /\bi\s+/g -> 'I ', tried at position i
grammarIStartAt(s, i) ==
  LET w == WsRun(s, i + 1)
  IN  IF s[i] = "i" /\ WordBoundary(s, i) /\ w >= 1
        THEN Match(1 + w, <<"I", " ">>)
        ELSE NoMatch

grammarIStart(s) == replaceAll(s, [i \in 1..Len(s) |-> grammarIStartAt(s, i)])

\* /\s+i\s+/g -> ' I ', tried at position i
grammarIMiddleAt(s, i) ==
  LET w == WsRun(s, i)
      j == i + w
      v == WsRun(s, j + 1)
  IN  IF w >= 1 /\ j <= Len(s) /\ s[j] = "i" /\ v >= 1
        THEN Match(w + 1 + v, <<" ", "I", " ">>)
        ELSE NoMatch

grammarIMiddle(s) ==
  replaceAll(s, [i \in 1..Len(s) |-> grammarIMiddleAt(s, i)])

\* /\s+i$/g -> ' I', tried at position i
grammarIEndAt(s, i) ==
  LET w == WsRun(s, i)
      j == i + w
  IN  IF w >= 1 /\ j = Len(s) /\ s[j] = "i"
        THEN Match(w + 1, <<" ", "I">>)
        ELSE NoMatch

grammarIEnd(s) == replaceAll(s, [i \in 1..Len(s) |-> grammarIEndAt(s, i)])

\* /\s{2,}/g -> ' ', tried at position i
grammarDoubleSpaceAt(s, i) ==
  LET w == WsRun(s, i)
  IN  IF w >= 2 THEN Match(w, <<" ">>) ELSE NoMatch

grammarDoubleSpace(s) ==
  replaceAll(s, [i \in 1..Len(s) |-> grammarDoubleSpaceAt(s, i)])

\* /\s+\./g -> '.', and the same for ',', '?' and '!', tried at position i
grammarSpaceBeforeAt(s, mark, i) ==
  LET w == WsRun(s, i)
      j == i + w
  IN  IF w >= 1 /\ j <= Len(s) /\ s[j] = mark
        THEN Match(w + 1, <<mark>>)
        ELSE NoMatch

grammarSpaceBefore(s, mark) ==
  replaceAll(s, [i \in 1..Len(s) |-> grammarSpaceBeforeAt(s, mark, i)])

\* a capitalization after every space, not only after ". "
capitalizeAt_EveryWord(s, i) ==
  IF i = 1 /\ s[1] \in LowerSet
    THEN Match(1, <<toUpperChar(s[1])>>)
  ELSE IF s[i] = " " /\ i + 1 <= Len(s) /\ s[i + 1] \in LowerSet
    THEN Match(2, <<" ", toUpperChar(s[i + 1])>>)
  ELSE NoMatch

\* /(^|\. )([a-z])/g with its replacer, tried at position i
capitalizeAt(s, i) ==
  IF i = 1 /\ s[1] \in LowerSet
    THEN Match(1, <<toUpperChar(s[1])>>)
  ELSE IF LitAt(s, <<".", " ">>, i) /\ i + 2 <= Len(s) /\ s[i + 2] \in LowerSet
    THEN Match(3, <<".", " ", toUpperChar(s[i + 2])>>)
  ELSE NoMatch

\* corrected.replace(/(^|\. )([a-z])/g, ...): sentence capitalization
capitalizeSentences(s) ==
  replaceAll(s, [i \in 1..Len(s) |-> capitalizeAt(s, i)])

\* the effect of GRAMMAR_PATTERNS[n] (counted from 1)
grammarPattern(s, n) ==
  CASE n = 1  -> grammarAAn(s)
    [] n = 2  -> grammarAnA(s)
    [] n = 3  -> grammarIStart(s)
    [] n = 4  -> grammarIMiddle(s)
    [] n = 5  -> grammarIEnd(s)
    [] n = 6  -> grammarDoubleSpace(s)
    [] n = 7  -> grammarSpaceBefore(s, ".")
    [] n = 8  -> grammarSpaceBefore(s, ",")
    [] n = 9  -> grammarSpaceBefore(s, "?")
    [] n = 10 -> grammarSpaceBefore(s, "!")

GrammarPatternCount == 10

\* the for loop over GRAMMAR_PATTERNS, from pattern n on
RECURSIVE grammarFrom(_, _)
grammarFrom(text, n) ==
  IF n > GrammarPatternCount THEN text
  ELSE LET next == grammarPattern(text, n)
       IN  IF Computed(next) THEN grammarFrom(next, n + 1) ELSE text

applyGrammarPatterns(text) ==
  LET corrected == grammarFrom(text, 1)
  IN  IF Computed(corrected) THEN capitalizeSentences(corrected) ELSE text

(* ------------------------------------------------------------------ *)
(* cleanupWhitespace                                                  *)
(* ------------------------------------------------------------------ *)
\* /\s+/g -> ' ', tried at position i
collapseAt(s, i) ==
  LET w == WsRun(s, i)
  IN  IF w >= 1 THEN Match(w, <<" ">>) ELSE NoMatch

\* .replace(/\s+/g, ' ')
collapseWhitespace(s) == replaceAll(s, [i \in 1..Len(s) |-> collapseAt(s, i)])

\* the greatest k <= w with a "\n" at the k-th character from i, 0 if none:
\* a greedy \s* gives characters back until a "\n" is left
LastNewline(s, i, w) ==
  LET at == {k \in 1..w : s[i + k - 1] = "\n"}
  IN  IF at = {} THEN 0 ELSE MaxOf(at)

\* /\s*\n\s*/g -> '\n', tried at position i
lineBreakAt(s, i) ==
  LET w == WsRun(s, i)
  IN  IF LastNewline(s, i, w) > 0 THEN Match(w, <<"\n">>) ELSE NoMatch

\* .replace(/\s*\n\s*/g, '\n')
cleanLineBreaks(s) == replaceAll(s, [i \in 1..Len(s) |-> lineBreakAt(s, i)])

\* length of the ^\s+ | \s+$ match (flags gm) that starts at i, 0 if none
lineTrimMatch(s, i) ==
  LET w == WsRun(s, i)
      lineStart == i = 1 \/ s[i - 1] = "\n"
      \* \s+$ : the longest prefix of the run that ends at a line end
      k == IF i + w > Len(s) THEN w
           ELSE IF w >= 1 /\ LastNewline(s, i, w) > 1
                THEN LastNewline(s, i, w) - 1
                ELSE 0
  IN  IF w >= 1 /\ lineStart THEN w ELSE k

\* .replace(/^\s+|\s+$/gm, '')
trimLines(s) ==
  replaceAll(s, [i \in 1..Len(s) |-> Match(lineTrimMatch(s, i), <<>>)])

cleanupWhitespace(text) ==
  LET trimmed   == trim(text)
      collapsed == collapseWhitespace(trimmed)
      cleaned   == cleanLineBreaks(collapsed)
  IN  IF Computed(trimmed) /\ Computed(collapsed) /\ Computed(cleaned)
        THEN trimLines(cleaned)
        ELSE text

(* ------------------------------------------------------------------ *)
(* applyLocalCorrections                                              *)
(* ------------------------------------------------------------------ *)
applyLocalCorrections(text) ==
  LET typosFixed == fixTypos(text)
      grammarFixed == applyGrammarPatterns(typosFixed)
  IN  IF Computed(typosFixed) /\ Computed(grammarFixed)
        THEN cleanupWhitespace(grammarFixed)
        ELSE text

(* ------------------------------------------------------------------ *)
(* extractEnhancedPrompt (llmClient.ts)                               *)
(* ------------------------------------------------------------------ *)
\* the literal part of each introPatterns entry; every entry ends in \s*
\* and carries the flag i
introPatterns ==
  <<
     <<"H","e","r","e","'","s"," ","t","h","e"," ","e","n","h","a","n","c","e","d"," ","p","r","o","m","p","t",":">>,
     <<"E","n","h","a","n","c","e","d"," ","p","r","o","m","p","t",":">>,
     <<"H","e","r","e","'","s"," ","a"," ","b","e","t","t","e","r"," ","v","e","r","s","i","o","n",":">>,
     <<"H","e","r","e","'","s"," ","t","h","e"," ","i","m","p","r","o","v","e","d"," ","p","r","o","m","p","t",":">>,
     <<"I","m","p","r","o","v","e","d"," ","p","r","o","m","p","t",":">>,
     <<"H","e","r","e","'","s"," ","t","h","e"," ","s","t","r","u","c","t","u","r","e","d"," ","p","r","o","m","p","t",":">>,
     <<"S","t","r","u","c","t","u","r","e","d"," ","p","r","o","m","p","t",":">>,
     <<"E","N","H","A","N","C","E","D"," ","P","R","O","M","P","T",":">>
  >>

\* the alternatives of the simpleExplanations pattern
explanationOpeners ==
  <<
     <<"O","k","a","y">>,
     <<"S","u","r","e">>,
     <<"I","'","v","e"," ","a","n","a","l","y","z","e","d">>,
     <<"I"," ","u","n","d","e","r","s","t","a","n","d">>,
     <<"L","e","t"," ","m","e"," ","e","n","h","a","n","c","e">>
  >>

\* the minimum length below which the cleaned text is discarded
MinCleanedLength == 20
\* callExternalLLM returns the raw reply only above this length
RawFallbackLength == 50

\* cleaned.match(pattern).index: first position of lit in s, 0 if none
searchNoCase(s, lit) ==
  FirstFrom({j \in 1..Len(s) : LitAtNoCase(s, lit, j)}, 1)

\* cleaned.substring(match.index + match[0].length).trim() for pattern n
stripIntro(s, n) ==
  LET at  == searchNoCase(s, introPatterns[n])
      end == at + Len(introPatterns[n])
  IN  trim(Drop(s, end + WsRun(s, end)))

\* the for loop over introPatterns: the first pattern that matches is
\* applied and the loop breaks
RECURSIVE stripFirstIntro(_, _)
stripFirstIntro(s, n) ==
  IF n > Len(introPatterns) THEN s
  ELSE IF searchNoCase(s, introPatterns[n]) > 0 THEN stripIntro(s, n)
  ELSE stripFirstIntro(s, n + 1)

\* length of the opener that s starts with, 0 if none
RECURSIVE openerLength(_, _)
openerLength(s, n) ==
  IF n > Len(explanationOpeners) THEN 0
  ELSE IF LitAtNoCase(s, explanationOpeners[n], 1)
       THEN Len(explanationOpeners[n])
       ELSE openerLength(s, n + 1)

\* .*?[.!]\s+ from position j: the position of the first '.' or '!' that
\* is followed by white space, 0 if a line break or the end comes first
sentenceEnd(s, j) ==
  LET e == FirstFrom({k \in j..Len(s) : /\ s[k] \in {".", "!"}
                                         /\ WsRun(s, k + 1) >= 1}, j)
  IN  IF e = 0 \/ (\E k \in j..(e - 1) : s[k] = "\n") THEN 0 ELSE e

\* cleaned.replace(/^(Okay|Sure|...).*?[.!]\s+/i, '')
stripExplanation(s) ==
  LET o == openerLength(s, 1)
      e == sentenceEnd(s, o + 1)
  IN  IF o > 0 /\ e > 0 THEN Drop(s, e + 1 + WsRun(s, e + 1)) ELSE s

QuoteRun(s, i) == RunFrom(s, i, QuoteChars)

QuoteRunBack(s, i) == RunBack(s, i, QuoteChars)

\* cleaned.replace(/^[quotes]+|[quotes]+$/g, '')
stripQuotes(s) ==
  LET rest == Drop(s, QuoteRun(s, 1) + 1)
  IN  SubSeq(rest, 1, Len(rest) - QuoteRunBack(rest, Len(rest)))

\* cleaning that strips the quotes before the opener sentence
cleanedText_QuotesFirst(geminiResponse) ==
  LET trimmed  == trim(geminiResponse)
      noIntro  == stripFirstIntro(trimmed, 1)
      noQuotes == stripQuotes(noIntro)
      noOpener == stripExplanation(noQuotes)
  IN  IF /\ Computed(trimmed) /\ Computed(noIntro)
         /\ Computed(noOpener) /\ Computed(noQuotes)
        THEN trim(noOpener)
        ELSE geminiResponse

\* the text after the three cleaning steps and the final trim
cleanedText(geminiResponse) ==
  LET trimmed  == trim(geminiResponse)
      noIntro  == stripFirstIntro(trimmed, 1)
      noOpener == stripExplanation(noIntro)
      noQuotes == stripQuotes(noOpener)
  IN  IF /\ Computed(trimmed) /\ Computed(noIntro)
         /\ Computed(noOpener) /\ Computed(noQuotes)
        THEN trim(noQuotes)
        ELSE geminiResponse

\* cleaning without the minimum-length safeguard
extractEnhancedPrompt_NoFloor(geminiResponse) == cleanedText(geminiResponse)

extractEnhancedPrompt(geminiResponse) ==
  LET cleaned == cleanedText(geminiResponse)
  IN  IF Len(cleaned) < MinCleanedLength
        THEN trim(geminiResponse)
        ELSE cleaned

(* ------------------------------------------------------------------ *)
(* Configuration (config.ts)                                          *)
(* ------------------------------------------------------------------ *)
\* getConfig: the user setting, or the packaged default when the setting
\* is the empty string (userApiKey || DEFAULT_CONFIG.GEMINI_API_KEY)
getConfig(userKey, defaultKey) ==
  [geminiApiKey |-> IF userKey # <<>> THEN userKey ELSE defaultKey]

validateApiKey(config) == trim(config.geminiApiKey) # <<>>

(* ------------------------------------------------------------------ *)
(* The context block of callExternalLLM                               *)
(* ------------------------------------------------------------------ *)
MaxTodosInBlock == 5
MaxActionsInBlock == 3
MaxMessagesInBlock == 2

Min(a, b) == IF a < b THEN a ELSE b
Max(a, b) == IF a > b THEN a ELSE b

\* Array.prototype.slice(0, n)
sliceFirst(s, n) == SubSeq(s, 1, Min(n, Len(s)))
\* Array.prototype.slice(-n)
sliceLast(s, n) == SubSeq(s, Max(1, Len(s) - n + 1), Len(s))

NoContext ==
  [defined |-> FALSE, previousMessages |-> <<>>, todos |-> <<>>,
   projectContext |-> <<>>, lastActions |-> <<>>]

\* the parts array: one labelled group per non-empty sequence
contextParts(context) ==
  (IF Len(context.todos) > 0
     THEN << [heading |-> "PREVIOUS TODOS/TASKS:",
              lines |-> sliceFirst(context.todos, MaxTodosInBlock)] >>
     ELSE <<>>)
  \o
  (IF Len(context.projectContext) > 0
     THEN << [heading |-> "PROJECT CONTEXT:",
              lines |-> context.projectContext] >>
     ELSE <<>>)
  \o
  (IF Len(context.lastActions) > 0
     THEN << [heading |-> "RECENT ACTIONS:",
              lines |-> sliceFirst(context.lastActions, MaxActionsInBlock)] >>
     ELSE <<>>)
  \o
  (IF Len(context.previousMessages) > 0
     THEN << [heading |-> "RECENT CONVERSATION:",
              lines |-> sliceLast(context.previousMessages, MaxMessagesInBlock)] >>
     ELSE <<>>)

\* contextInfo: the empty string unless a context was passed and some
\* group is non-empty
buildContextInfo(context) ==
  IF context.defined /\ Len(contextParts(context)) > 0
    THEN [present |-> TRUE, heading |-> "CONVERSATION CONTEXT:",
          parts |-> contextParts(context)]
    ELSE [present |-> FALSE, heading |-> "", parts |-> <<>>]

(* ------------------------------------------------------------------ *)
(* The reply handling of callExternalLLM                              *)
(* ------------------------------------------------------------------ *)
Returned(v) == [status |-> "returned", value |-> v, message |-> <<>>]
Threw(m)    == [status |-> "threw", value |-> <<>>, message |-> m]
Pending     == [status |-> "none", value |-> <<>>, message |-> <<>>]

\* the catch block of callExternalLLM: re-throw with more context
rethrow(message) ==
  Threw(<<"Failed to improve prompt with external LLM: ">> \o message)

\* the lines after the status check, for a reply whose JSON was parsed
handleData(resp) ==
  IF ~resp.hasCandidates \/ Len(resp.candidates) = 0
    THEN rethrow(<<"No response from Gemini API">>)
  ELSE LET candidate == resp.candidates[1]
       IN  IF ~candidate.hasContent \/ ~candidate.hasParts
              \/ Len(candidate.parts) = 0
             THEN rethrow(<<"Invalid response structure from Gemini API">>)
           ELSE LET improvedPrompt == trim(candidate.parts[1])
                    cleanedPrompt  == extractEnhancedPrompt(improvedPrompt)
                IN  IF Len(improvedPrompt) = 0
                      THEN rethrow(<<"Empty response from Gemini API">>)
                    ELSE IF Len(cleanedPrompt) < MinCleanedLength
                            /\ Len(improvedPrompt) > RawFallbackLength
                      THEN Returned(improvedPrompt)
                      ELSE Returned(cleanedPrompt)

\* reply handling that skips the response.ok check
handleResponse_IgnoreStatus(resp) ==
  IF ~resp.validJson
    THEN rethrow(<<"Unexpected token in JSON">>)
  ELSE handleData(resp)

\* everything callExternalLLM does once fetch has resolved with resp
handleResponse(resp) ==
  IF ~resp.ok
    THEN rethrow(<<"Gemini API error: ", ToString(resp.status), " - ",
                   resp.errorText>>)
  ELSE IF ~resp.validJson
    THEN rethrow(<<"Unexpected token in JSON">>)
  ELSE handleData(resp)

\* fetch itself rejected
handleFetchError == rethrow(<<"fetch failed">>)

\* the validation failure, thrown before the try block
missingKeyError ==
  Threw(<<"Gemini API key is not configured. Please set clarity.geminiApiKey in settings.">>)

(* ------------------------------------------------------------------ *)
(* improvePrompt (autocorrect.ts)                                     *)
(* ------------------------------------------------------------------ *)
\* improvePrompt without the try/catch around the client call
improvePromptResult_NoCatch(improvedPrompt, llmOutcome) ==
  IF llmOutcome.status = "threw"
    THEN Threw(llmOutcome.message)
  ELSE IF llmOutcome.value # <<>> /\ trim(llmOutcome.value) # <<>>
    THEN Returned(trim(llmOutcome.value))
    ELSE Returned(trim(improvedPrompt))

\* the value improvePrompt returns once the client call has settled
improvePromptResult(improvedPrompt, llmOutcome) ==
  IF /\ llmOutcome.status = "returned"
     /\ llmOutcome.value # <<>>
     /\ trim(llmOutcome.value) # <<>>
    THEN Returned(trim(llmOutcome.value))
    ELSE Returned(trim(improvedPrompt))

(* ------------------------------------------------------------------ *)
(* The analyzer and the defaulting engine (autocorrect.ts)            *)
(* ------------------------------------------------------------------ *)
\* an optional value: undefined, or the value
None == <<>>
Some(v) == <<v>>
\* the value is neither undefined nor the empty string
Truthy(o) == o # None /\ o[1] # <<>>

\* String.prototype.includes
includes(text, lit) == \E i \in 1..Len(text) : LitAt(text, lit, i)

\* RegExp.prototype.test for an alternation of literals with the flag i
testAlternation(alts, text) ==
  \E k \in 1..Len(alts) : \E i \in 1..Len(text) : LitAtNoCase(text, alts[k], i)

\* the task verbs of analyzePromptComponents
taskKeywords ==
  <<<<"w","r","i","t","e">>,
    <<"c","r","e","a","t","e">>,
    <<"b","u","i","l","d">>,
    <<"d","e","v","e","l","o","p">>,
    <<"m","a","k","e">>,
    <<"g","e","n","e","r","a","t","e">>,
    <<"d","e","s","i","g","n">>,
    <<"i","m","p","l","e","m","e","n","t">>,
    <<"c","o","d","e">>,
    <<"d","e","b","u","g">>,
    <<"f","i","x">>,
    <<"h","e","l","p">>,
    <<"e","x","p","l","a","i","n">>,
    <<"s","h","o","w">>,
    <<"f","i","n","d">>,
    <<"s","e","a","r","c","h">>,
    <<"c","a","l","c","u","l","a","t","e">>,
    <<"c","o","m","p","u","t","e">>,
    <<"a","n","a","l","y","z","e">>,
    <<"r","e","v","i","e","w">>>>

\* the table of detectRole, in order; each pattern is an alternation of
\* literals and carries the flag i
rolePatterns ==
  <<
    [alts  |-> <<<<"w","e","b","s","i","t","e">>,
                <<"w","e","b">>,
                <<"h","t","m","l">>,
                <<"c","s","s">>,
                <<"f","r","o","n","t","e","n","d">>,
                <<"w","e","b","p","a","g","e">>>>,
     value |-> <<"Y","o","u"," ","a","r","e"," ","a","n"," ","e","x","p","e","r",
               "i","e","n","c","e","d"," ","f","u","l","l","-","s","t","a","c",
               "k"," ","w","e","b"," ","d","e","v","e","l","o","p","e","r">>],
    [alts  |-> <<<<"f","u","n","c","t","i","o","n">>,
                <<"j","a","v","a","s","c","r","i","p","t">>,
                <<"t","y","p","e","s","c","r","i","p","t">>,
                <<"j","s">>,
                <<"t","s">>>>,
     value |-> <<"A"," ","s","k","i","l","l","e","d"," ","J","a","v","a","S","c",
               "r","i","p","t","/","T","y","p","e","S","c","r","i","p","t"," ",
               "d","e","v","e","l","o","p","e","r">>],
    [alts  |-> <<<<"r","e","a","c","t">>,
                <<"v","u","e">>,
                <<"a","n","g","u","l","a","r">>,
                <<"n","e","x","t",".","j","s">>,
                <<"n","e","x","t","j","s">>>>,
     value |-> <<"A"," ","f","r","o","n","t","e","n","d"," ","R","e","a","c","t",
               " ","d","e","v","e","l","o","p","e","r">>],
    [alts  |-> <<<<"c","s","s">>,
                <<"s","t","y","l","e">>,
                <<"d","e","s","i","g","n">>,
                <<"t","a","i","l","w","i","n","d","c","s","s">>>>,
     value |-> <<"A"," ","U","I","/","U","X"," ","d","e","s","i","g","n","e","r",
               " ","a","n","d"," ","C","S","S"," ","e","x","p","e","r","t">>],
    [alts  |-> <<<<"n","o","d","e">>,
                <<"e","x","p","r","e","s","s">>,
                <<"k","o","a">>,
                <<"f","a","s","t","i","f","y">>>>,
     value |-> <<"A"," ","b","a","c","k","e","n","d"," ","N","o","d","e",".","j",
               "s"," ","d","e","v","e","l","o","p","e","r">>],
    [alts  |-> <<<<"j","a","v","a">>,
                <<"s","p","r","i","n","g">>,
                <<"j","v","m">>,
                <<"k","o","t","l","i","n">>>>,
     value |-> <<"A","n"," ","e","x","p","e","r","i","e","n","c","e","d"," ","J",
               "a","v","a"," ","b","a","c","k","e","n","d"," ","e","n","g","i",
               "n","e","e","r">>],
    [alts  |-> <<<<"c","#">>,
                <<"d","o","t","n","e","t">>,
                <<"a","s","p",".","n","e","t">>,
                <<".","n","e","t">>>>,
     value |-> <<"A"," ","C","#","/",".","N","E","T"," ","d","e","v","e","l","o",
               "p","e","r">>],
    [alts  |-> <<<<"p","h","p">>,
                <<"l","a","r","a","v","e","l">>,
                <<"s","y","m","f","o","n","y">>>>,
     value |-> <<"A"," ","P","H","P"," ","b","a","c","k","e","n","d"," ","d","e",
               "v","e","l","o","p","e","r">>],
    [alts  |-> <<<<"r","u","b","y">>,
                <<"r","a","i","l","s">>>>,
     value |-> <<"A"," ","R","u","b","y"," ","o","n"," ","R","a","i","l","s"," ",
               "d","e","v","e","l","o","p","e","r">>],
    [alts  |-> <<<<"g","o">>,
                <<"g","o","l","a","n","g">>>>,
     value |-> <<"A"," ","G","o"," ","b","a","c","k","e","n","d"," ","d","e","v",
               "e","l","o","p","e","r">>],
    [alts  |-> <<<<"d","o","c","k","e","r">>,
                <<"k","u","b","e","r","n","e","t","e","s">>,
                <<"k","8","s">>,
                <<"c","o","n","t","a","i","n","e","r">>>>,
     value |-> <<"A"," ","D","e","v","O","p","s"," ","a","n","d"," ","c","o","n",
               "t","a","i","n","e","r","i","z","a","t","i","o","n"," ","e","x",
               "p","e","r","t">>],
    [alts  |-> <<<<"a","w","s">>,
                <<"a","z","u","r","e">>,
                <<"g","c","p">>,
                <<"c","l","o","u","d">>>>,
     value |-> <<"A"," ","c","l","o","u","d"," ","c","o","m","p","u","t","i","n",
               "g"," ","e","n","g","i","n","e","e","r">>],
    [alts  |-> <<<<"m","a","c","h","i","n","e"," ","l","e","a","r","n","i","n","g">>,
                <<"m","l">>,
                <<"a","i">>,
                <<"n","e","u","r","a","l">>,
                <<"t","e","n","s","o","r","f","l","o","w">>,
                <<"p","y","t","o","r","c","h">>>>,
     value |-> <<"A"," ","m","a","c","h","i","n","e"," ","l","e","a","r","n","i",
               "n","g"," ","e","n","g","i","n","e","e","r">>],
    [alts  |-> <<<<"d","a","t","a"," ","s","c","i","e","n","c","e">>,
                <<"p","a","n","d","a","s">>,
                <<"n","u","m","p","y">>,
                <<"m","a","t","p","l","o","t","l","i","b">>,
                <<"s","c","i","k","i","t">>,
                <<"a","n","a","l","y","s","i","s">>>>,
     value |-> <<"A"," ","d","a","t","a"," ","s","c","i","e","n","t","i","s","t">>],
    [alts  |-> <<<<"n","l","p">>,
                <<"l","a","n","g","u","a","g","e"," ","m","o","d","e","l">>,
                <<"t","e","x","t"," ","p","r","o","c","e","s","s","i","n","g">>>>,
     value |-> <<"A","n"," ","N","L","P"," ","e","n","g","i","n","e","e","r">>],
    [alts  |-> <<<<"v","i","s","i","o","n">>,
                <<"i","m","a","g","e">>,
                <<"o","p","e","n","c","v">>>>,
     value |-> <<"A"," ","c","o","m","p","u","t","e","r"," ","v","i","s","i","o",
               "n"," ","e","n","g","i","n","e","e","r">>],
    [alts  |-> <<<<"s","t","a","t","i","s","t","i","c","s">>,
                <<"p","r","o","b","a","b","i","l","i","t","y">>,
                <<"r","e","g","r","e","s","s","i","o","n">>,
                <<"a","n","a","l","y","t","i","c","s">>>>,
     value |-> <<"A"," ","s","t","a","t","i","s","t","i","c","s"," ","a","n","d",
               " ","d","a","t","a"," ","a","n","a","l","y","t","i","c","s"," ",
               "e","x","p","e","r","t">>],
    [alts  |-> <<<<"c","+","+">>,
                <<"c","p","p">>,
                <<"c"," ","p","r","o","g","r","a","m">>,
                <<"a","r","d","u","i","n","o">>,
                <<"s","t","m","3","2">>,
                <<"e","m","b","e","d","d","e","d">>>>,
     value |-> <<"A","n"," ","e","m","b","e","d","d","e","d"," ","s","y","s","t",
               "e","m","s"," ","d","e","v","e","l","o","p","e","r">>],
    [alts  |-> <<<<"r","u","s","t">>,
                <<"s","y","s","t","e","m","s"," ","p","r","o","g","r","a","m","m","i","n","g">>,
                <<"m","e","m","o","r","y"," ","s","a","f","e","t","y">>>>,
     value |-> <<"A"," ","R","u","s","t"," ","s","y","s","t","e","m","s"," ","p",
               "r","o","g","r","a","m","m","e","r">>],
    [alts  |-> <<<<"o","s">>,
                <<"k","e","r","n","e","l">>,
                <<"d","r","i","v","e","r">>,
                <<"l","o","w","-","l","e","v","e","l">>>>,
     value |-> <<"A","n"," ","o","p","e","r","a","t","i","n","g"," ","s","y","s",
               "t","e","m","s"," ","e","n","g","i","n","e","e","r">>],
    [alts  |-> <<<<"a","n","d","r","o","i","d">>,
                <<"k","o","t","l","i","n">>,
                <<"j","a","v","a"," ","a","n","d","r","o","i","d">>,
                <<"a","p","k">>>>,
     value |-> <<"A","n"," ","A","n","d","r","o","i","d"," ","a","p","p"," ","d",
               "e","v","e","l","o","p","e","r">>],
    [alts  |-> <<<<"i","o","s">>,
                <<"s","w","i","f","t">>,
                <<"o","b","j","e","c","t","i","v","e","-","c">>>>,
     value |-> <<"A","n"," ","i","O","S"," ","a","p","p"," ","d","e","v","e","l",
               "o","p","e","r">>],
    [alts  |-> <<<<"f","l","u","t","t","e","r">>,
                <<"d","a","r","t">>>>,
     value |-> <<"A"," ","F","l","u","t","t","e","r"," ","m","o","b","i","l","e",
               " ","d","e","v","e","l","o","p","e","r">>],
    [alts  |-> <<<<"r","e","a","c","t"," ","n","a","t","i","v","e">>>>,
     value |-> <<"A"," ","R","e","a","c","t"," ","N","a","t","i","v","e"," ","m",
               "o","b","i","l","e"," ","d","e","v","e","l","o","p","e","r">>],
    [alts  |-> <<<<"c","y","b","e","r","s","e","c","u","r","i","t","y">>,
                <<"p","e","n","t","e","s","t">>,
                <<"x","s","s">>,
                <<"s","q","l"," ","i","n","j","e","c","t","i","o","n">>,
                <<"e","x","p","l","o","i","t">>>>,
     value |-> <<"A"," ","c","y","b","e","r","s","e","c","u","r","i","t","y"," ",
               "s","p","e","c","i","a","l","i","s","t">>],
    [alts  |-> <<<<"a","u","t","h">>,
                <<"a","u","t","h","e","n","t","i","c","a","t","i","o","n">>,
                <<"o","a","u","t","h">>,
                <<"j","w","t">>,
                <<"e","n","c","r","y","p","t","i","o","n">>,
                <<"h","a","s","h">>>>,
     value |-> <<"A"," ","s","e","c","u","r","i","t","y"," ","e","n","g","i","n",
               "e","e","r">>],
    [alts  |-> <<<<"s","q","l">>,
                <<"d","a","t","a","b","a","s","e">>,
                <<"q","u","e","r","y">>>>,
     value |-> <<"A"," ","d","a","t","a","b","a","s","e"," ","e","x","p","e","r",
               "t">>],
    [alts  |-> <<<<"p","y","t","h","o","n">>,
                <<"p","y">>>>,
     value |-> <<"A","n"," ","e","x","p","e","r","i","e","n","c","e","d"," ","P",
               "y","t","h","o","n"," ","d","e","v","e","l","o","p","e","r">>],
    [alts  |-> <<<<"d","e","v","o","p","s">>,
                <<"c","i","/","c","d">>,
                <<"p","i","p","e","l","i","n","e">>,
                <<"a","u","t","o","m","a","t","i","o","n">>>>,
     value |-> <<"A"," ","D","e","v","O","p","s"," ","e","n","g","i","n","e","e",
               "r">>],
    [alts  |-> <<<<"s","h","e","l","l">>,
                <<"b","a","s","h">>,
                <<"l","i","n","u","x">>,
                <<"u","n","i","x">>,
                <<"c","o","m","m","a","n","d"," ","l","i","n","e">>>>,
     value |-> <<"A"," ","L","i","n","u","x"," ","a","n","d"," ","s","h","e","l",
               "l"," ","s","c","r","i","p","t","i","n","g"," ","e","x","p","e",
               "r","t">>],
    [alts  |-> <<<<"r","e","g","e","x">>,
                <<"p","a","t","t","e","r","n"," ","m","a","t","c","h","i","n","g">>>>,
     value |-> <<"A"," ","r","e","g","u","l","a","r"," ","e","x","p","r","e","s",
               "s","i","o","n","s"," ","e","x","p","e","r","t">>],
    [alts  |-> <<<<"e","x","c","e","l">>,
                <<"s","p","r","e","a","d","s","h","e","e","t">>,
                <<"v","b","a">>>>,
     value |-> <<"A","n"," ","E","x","c","e","l","/","V","B","A"," ","a","u","t",
               "o","m","a","t","i","o","n"," ","s","p","e","c","i","a","l","i",
               "s","t">>],
    [alts  |-> <<<<"g","a","m","e">>,
                <<"u","n","i","t","y">>,
                <<"u","n","r","e","a","l">>,
                <<"g","o","d","o","t">>>>,
     value |-> <<"A"," ","g","a","m","e"," ","d","e","v","e","l","o","p","e","r">>],
    [alts  |-> <<<<"d","e","b","u","g">>,
                <<"e","r","r","o","r">>,
                <<"f","i","x">>,
                <<"p","r","o","b","l","e","m">>>>,
     value |-> <<"A"," ","d","e","b","u","g","g","i","n","g"," ","s","p","e","c",
               "i","a","l","i","s","t">>],
    [alts  |-> <<<<"a","p","i">>,
                <<"r","e","s","t">>,
                <<"e","n","d","p","o","i","n","t">>>>,
     value |-> <<"A"," ","b","a","c","k","e","n","d"," ","A","P","I"," ","d","e",
               "v","e","l","o","p","e","r">>],
    [alts  |-> <<<<"t","e","s","t">>,
                <<"t","e","s","t","i","n","g">>,
                <<"u","n","i","t"," ","t","e","s","t">>>>,
     value |-> <<"A"," ","s","o","f","t","w","a","r","e"," ","t","e","s","t","i",
               "n","g"," ","e","x","p","e","r","t">>]
  >>

\* the table of detectOutputFormat; the alternative made of back quotes
\* is left out, the alphabet of the model having no back quote
formatPatterns ==
  <<
    [alts  |-> <<<<"w","e","b","s","i","t","e">>,
                <<"w","e","b">>,
                <<"h","t","m","l">>>>,
     value |-> <<"P","r","o","v","i","d","e"," ","t","h","e"," ","c","o","m","p",
               "l","e","t","e"," ","c","o","d","e"," ","i","n"," ","M","a","r",
               "k","d","o","w","n"," ","c","o","d","e"," ","b","l","o","c","k",
               "s",","," ","w","i","t","h"," ","s","e","p","a","r","a","t","e",
               " ","b","l","o","c","k","s"," ","f","o","r"," ","H","T","M","L",
               ","," ","C","S","S",","," ","a","n","d"," ","J","a","v","a","S",
               "c","r","i","p","t">>],
    [alts  |-> <<<<"a","p","i">>,
                <<"r","e","s","t">>,
                <<"e","n","d","p","o","i","n","t">>>>,
     value |-> <<"P","r","o","v","i","d","e"," ","c","o","d","e"," ","e","x","a",
               "m","p","l","e","s"," ","w","i","t","h"," ","p","r","o","p","e",
               "r"," ","A","P","I"," ","s","t","r","u","c","t","u","r","e"," ",
               "a","n","d"," ","d","o","c","u","m","e","n","t","a","t","i","o",
               "n">>],
    [alts  |-> <<<<"n","o","d","e">>,
                <<"e","x","p","r","e","s","s">>>>,
     value |-> <<"P","r","o","v","i","d","e"," ","N","o","d","e",".","j","s"," ",
               "c","o","d","e"," ","i","n"," ","m","a","r","k","d","o","w","n",
               " ","c","o","d","e"," ","b","l","o","c","k","s"," ","w","i","t",
               "h"," ","p","r","o","p","e","r"," ","m","o","d","u","l","e"," ",
               "s","t","r","u","c","t","u","r","e">>],
    [alts  |-> <<<<"j","a","v","a">>,
                <<"s","p","r","i","n","g">>>>,
     value |-> <<"P","r","o","v","i","d","e"," ","J","a","v","a"," ","c","o","d",
               "e"," ","w","i","t","h"," ","p","r","o","p","e","r"," ","c","l",
               "a","s","s"," ","s","t","r","u","c","t","u","r","e"," ","a","n",
               "d"," ","a","n","n","o","t","a","t","i","o","n","s">>],
    [alts  |-> <<<<"p","y","t","h","o","n">>,
                <<"d","j","a","n","g","o">>,
                <<"f","l","a","s","k">>>>,
     value |-> <<"P","r","o","v","i","d","e"," ","P","y","t","h","o","n"," ","c",
               "o","d","e"," ","f","o","l","l","o","w","i","n","g"," ","P","E",
               "P"," ","8"," ","f","o","r","m","a","t","t","i","n","g"," ","i",
               "n"," ","c","o","d","e"," ","b","l","o","c","k","s">>],
    [alts  |-> <<<<"a","n","d","r","o","i","d">>,
                <<"k","o","t","l","i","n">>>>,
     value |-> <<"P","r","o","v","i","d","e"," ","A","n","d","r","o","i","d"," ",
               "c","o","d","e"," ","w","i","t","h"," ","p","r","o","p","e","r",
               " ","a","c","t","i","v","i","t","y","/","f","r","a","g","m","e",
               "n","t"," ","s","t","r","u","c","t","u","r","e">>],
    [alts  |-> <<<<"i","o","s">>,
                <<"s","w","i","f","t">>>>,
     value |-> <<"P","r","o","v","i","d","e"," ","S","w","i","f","t"," ","c","o",
               "d","e"," ","w","i","t","h"," ","p","r","o","p","e","r"," ","v",
               "i","e","w"," ","c","o","n","t","r","o","l","l","e","r"," ","s",
               "t","r","u","c","t","u","r","e">>],
    [alts  |-> <<<<"f","l","u","t","t","e","r">>,
                <<"d","a","r","t">>>>,
     value |-> <<"P","r","o","v","i","d","e"," ","F","l","u","t","t","e","r"," ",
               "c","o","d","e"," ","w","i","t","h"," ","p","r","o","p","e","r",
               " ","w","i","d","g","e","t"," ","s","t","r","u","c","t","u","r",
               "e">>],
    [alts  |-> <<<<"m","a","c","h","i","n","e"," ","l","e","a","r","n","i","n","g">>,
                <<"m","l">>,
                <<"d","a","t","a"," ","s","c","i","e","n","c","e">>>>,
     value |-> <<"P","r","o","v","i","d","e"," ","c","o","d","e"," ","w","i","t",
               "h"," ","d","a","t","a"," ","a","n","a","l","y","s","i","s"," ",
               "s","t","e","p","s"," ","a","n","d"," ","v","i","s","u","a","l",
               "i","z","a","t","i","o","n","s">>],
    [alts  |-> <<<<"s","q","l">>,
                <<"d","a","t","a","b","a","s","e">>>>,
     value |-> <<"P","r","o","v","i","d","e"," ","S","Q","L"," ","q","u","e","r",
               "i","e","s"," ","w","i","t","h"," ","p","r","o","p","e","r"," ",
               "f","o","r","m","a","t","t","i","n","g"," ","a","n","d"," ","c",
               "o","m","m","e","n","t","s">>],
    [alts  |-> <<<<"d","o","c","k","e","r">>,
                <<"k","u","b","e","r","n","e","t","e","s">>>>,
     value |-> <<"P","r","o","v","i","d","e"," ","c","o","n","f","i","g","u","r",
               "a","t","i","o","n"," ","f","i","l","e","s"," ","w","i","t","h",
               " ","p","r","o","p","e","r"," ","Y","A","M","L","/","D","o","c",
               "k","e","r","f","i","l","e"," ","s","t","r","u","c","t","u","r",
               "e">>],
    [alts  |-> <<<<"s","h","e","l","l">>,
                <<"b","a","s","h">>>>,
     value |-> <<"P","r","o","v","i","d","e"," ","s","h","e","l","l"," ","s","c",
               "r","i","p","t","s"," ","w","i","t","h"," ","p","r","o","p","e",
               "r"," ","s","h","e","b","a","n","g"," ","a","n","d"," ","c","o",
               "m","m","e","n","t","s">>],
    [alts  |-> <<<<"j","s","o","n">>>>,
     value |-> <<"R","e","t","u","r","n"," ","t","h","e"," ","r","e","s","p","o",
               "n","s","e"," ","i","n"," ","J","S","O","N"," ","f","o","r","m",
               "a","t">>],
    [alts  |-> <<<<"x","m","l">>>>,
     value |-> <<"R","e","t","u","r","n"," ","t","h","e"," ","r","e","s","p","o",
               "n","s","e"," ","i","n"," ","X","M","L"," ","f","o","r","m","a",
               "t">>],
    [alts  |-> <<<<"c","s","v">>>>,
     value |-> <<"R","e","t","u","r","n"," ","t","h","e"," ","r","e","s","p","o",
               "n","s","e"," ","i","n"," ","C","S","V"," ","f","o","r","m","a",
               "t">>],
    [alts  |-> <<<<"y","a","m","l">>,
                <<"y","m","l">>>>,
     value |-> <<"R","e","t","u","r","n"," ","t","h","e"," ","r","e","s","p","o",
               "n","s","e"," ","i","n"," ","Y","A","M","L"," ","f","o","r","m",
               "a","t">>],
    [alts  |-> <<<<"m","a","r","k","d","o","w","n">>,
                <<"m","d">>>>,
     value |-> <<"R","e","s","p","o","n","d"," ","i","n"," ","M","a","r","k","d",
               "o","w","n"," ","f","o","r","m","a","t"," ","w","i","t","h"," ",
               "p","r","o","p","e","r"," ","h","e","a","d","e","r","s"," ","a",
               "n","d"," ","f","o","r","m","a","t","t","i","n","g">>],
    [alts  |-> <<<<"c","o","d","e"," ","b","l","o","c","k">>,
                <<"s","n","i","p","p","e","t">>>>,
     value |-> <<"R","e","t","u","r","n"," ","t","h","e"," ","s","o","l","u","t",
               "i","o","n"," ","i","n"," ","a"," ","f","e","n","c","e","d"," ",
               "c","o","d","e"," ","b","l","o","c","k">>],
    [alts  |-> <<<<"c","o","d","e"," ","b","l","o","c","k">>,
                <<"c","o","d","e","b","l","o","c","k">>>>,
     value |-> <<"P","r","o","v","i","d","e"," ","t","h","e"," ","s","o","l","u",
               "t","i","o","n"," ","i","n"," ","a"," ","m","a","r","k","d","o",
               "w","n"," ","c","o","d","e"," ","b","l","o","c","k">>],
    [alts  |-> <<<<"s","t","e","p"," ","b","y"," ","s","t","e","p">>,
                <<"s","t","e","p","s">>>>,
     value |-> <<"P","r","o","v","i","d","e"," ","a"," ","s","t","e","p","-","b",
               "y","-","s","t","e","p"," ","e","x","p","l","a","n","a","t","i",
               "o","n">>],
    [alts  |-> <<<<"e","x","a","m","p","l","e">>,
                <<"e","x","a","m","p","l","e","s">>>>,
     value |-> <<"I","n","c","l","u","d","e"," ","p","r","a","c","t","i","c","a",
               "l"," ","e","x","a","m","p","l","e","s">>],
    [alts  |-> <<<<"l","i","s","t">>,
                <<"b","u","l","l","e","t">>>>,
     value |-> <<"P","r","e","s","e","n","t"," ","a","s"," ","a"," ","n","u","m",
               "b","e","r","e","d"," ","o","r"," ","b","u","l","l","e","t","e",
               "d"," ","l","i","s","t">>]
  >>

\* the table of detectConstraints
constraintPatterns ==
  <<
    [alts  |-> <<<<"w","e","b","s","i","t","e">>,
                <<"w","e","b">>,
                <<"h","t","m","l">>>>,
     value |-> <<"U","s","e"," ","H","T","M","L",","," ","C","S","S",","," ","a",
               "n","d"," ","J","a","v","a","S","c","r","i","p","t"," ","o","n",
               "l","y"," ","(","n","o"," ","e","x","t","e","r","n","a","l"," ",
               "f","r","a","m","e","w","o","r","k","s"," ","u","n","l","e","s",
               "s"," ","s","p","e","c","i","f","i","e","d",")","."," ","E","n",
               "s","u","r","e"," ","t","h","e"," ","s","i","t","e"," ","i","s",
               " ","m","o","b","i","l","e","-","f","r","i","e","n","d","l","y",
               "."," ","K","e","e","p"," ","t","h","e"," ","d","e","s","i","g",
               "n"," ","c","l","e","a","n"," ","a","n","d"," ","p","r","o","f",
               "e","s","s","i","o","n","a","l">>],
    [alts  |-> <<<<"n","o","d","e">>,
                <<"e","x","p","r","e","s","s">>>>,
     value |-> <<"U","s","e"," ","N","o","d","e",".","j","s"," ","a","n","d"," ",
               "E","x","p","r","e","s","s",".","j","s"," ","b","e","s","t"," ",
               "p","r","a","c","t","i","c","e","s","."," ","I","n","c","l","u",
               "d","e"," ","p","r","o","p","e","r"," ","e","r","r","o","r"," ",
               "h","a","n","d","l","i","n","g"," ","a","n","d"," ","a","s","y",
               "n","c","/","a","w","a","i","t"," ","p","a","t","t","e","r","n",
               "s">>],
    [alts  |-> <<<<"j","a","v","a">>,
                <<"s","p","r","i","n","g">>>>,
     value |-> <<"F","o","l","l","o","w"," ","J","a","v","a"," ","b","e","s","t",
               " ","p","r","a","c","t","i","c","e","s"," ","a","n","d"," ","S",
               "p","r","i","n","g"," ","B","o","o","t"," ","c","o","n","v","e",
               "n","t","i","o","n","s","."," ","U","s","e"," ","p","r","o","p",
               "e","r"," ","d","e","p","e","n","d","e","n","c","y"," ","i","n",
               "j","e","c","t","i","o","n">>],
    [alts  |-> <<<<"c","#">>,
                <<"d","o","t","n","e","t">>>>,
     value |-> <<"F","o","l","l","o","w"," ","C","#","/",".","N","E","T"," ","c",
               "o","d","i","n","g"," ","s","t","a","n","d","a","r","d","s"," ",
               "a","n","d"," ","u","s","e"," ","a","p","p","r","o","p","r","i",
               "a","t","e"," ","d","e","s","i","g","n"," ","p","a","t","t","e",
               "r","n","s">>],
    [alts  |-> <<<<"p","y","t","h","o","n">>,
                <<"d","j","a","n","g","o">>,
                <<"f","l","a","s","k">>>>,
     value |-> <<"U","s","e"," ","P","y","t","h","o","n","i","c"," ","c","o","d",
               "e"," ","f","o","l","l","o","w","i","n","g"," ","P","E","P"," ",
               "8"," ","s","t","a","n","d","a","r","d","s","."," ","I","n","c",
               "l","u","d","e"," ","p","r","o","p","e","r"," ","e","r","r","o",
               "r"," ","h","a","n","d","l","i","n","g">>],
    [alts  |-> <<<<"p","h","p">>,
                <<"l","a","r","a","v","e","l">>>>,
     value |-> <<"F","o","l","l","o","w"," ","P","H","P"," ","P","S","R"," ","s",
               "t","a","n","d","a","r","d","s"," ","a","n","d"," ","L","a","r",
               "a","v","e","l"," ","b","e","s","t"," ","p","r","a","c","t","i",
               "c","e","s">>],
    [alts  |-> <<<<"r","u","b","y">>,
                <<"r","a","i","l","s">>>>,
     value |-> <<"F","o","l","l","o","w"," ","R","u","b","y"," ","c","o","n","v",
               "e","n","t","i","o","n","s"," ","a","n","d"," ","R","a","i","l",
               "s"," ","b","e","s","t"," ","p","r","a","c","t","i","c","e","s">>],
    [alts  |-> <<<<"g","o">>,
                <<"g","o","l","a","n","g">>>>,
     value |-> <<"U","s","e"," ","G","o"," ","b","e","s","t"," ","p","r","a","c",
               "t","i","c","e","s"," ","w","i","t","h"," ","p","r","o","p","e",
               "r"," ","e","r","r","o","r"," ","h","a","n","d","l","i","n","g",
               " ","a","n","d"," ","c","o","n","c","u","r","r","e","n","t"," ",
               "p","a","t","t","e","r","n","s">>],
    [alts  |-> <<<<"a","n","d","r","o","i","d">>,
                <<"k","o","t","l","i","n">>>>,
     value |-> <<"F","o","l","l","o","w"," ","A","n","d","r","o","i","d"," ","d",
               "e","v","e","l","o","p","m","e","n","t"," ","b","e","s","t"," ",
               "p","r","a","c","t","i","c","e","s"," ","a","n","d"," ","M","a",
               "t","e","r","i","a","l"," ","D","e","s","i","g","n"," ","g","u",
               "i","d","e","l","i","n","e","s">>],
    [alts  |-> <<<<"i","o","s">>,
                <<"s","w","i","f","t">>>>,
     value |-> <<"F","o","l","l","o","w"," ","i","O","S"," ","H","u","m","a","n",
               " ","I","n","t","e","r","f","a","c","e"," ","G","u","i","d","e",
               "l","i","n","e","s"," ","a","n","d"," ","S","w","i","f","t"," ",
               "b","e","s","t"," ","p","r","a","c","t","i","c","e","s">>],
    [alts  |-> <<<<"f","l","u","t","t","e","r">>,
                <<"d","a","r","t">>>>,
     value |-> <<"U","s","e"," ","F","l","u","t","t","e","r"," ","b","e","s","t",
               " ","p","r","a","c","t","i","c","e","s"," ","a","n","d"," ","f",
               "o","l","l","o","w"," ","D","a","r","t"," ","s","t","y","l","e",
               " ","g","u","i","d","e","l","i","n","e","s">>],
    [alts  |-> <<<<"r","e","a","c","t"," ","n","a","t","i","v","e">>>>,
     value |-> <<"F","o","l","l","o","w"," ","R","e","a","c","t"," ","N","a","t",
               "i","v","e"," ","b","e","s","t"," ","p","r","a","c","t","i","c",
               "e","s"," ","a","n","d"," ","c","r","o","s","s","-","p","l","a",
               "t","f","o","r","m"," ","c","o","m","p","a","t","i","b","i","l",
               "i","t","y">>],
    [alts  |-> <<<<"d","o","c","k","e","r">>,
                <<"k","u","b","e","r","n","e","t","e","s">>>>,
     value |-> <<"F","o","l","l","o","w"," ","c","o","n","t","a","i","n","e","r",
               "i","z","a","t","i","o","n"," ","b","e","s","t"," ","p","r","a",
               "c","t","i","c","e","s"," ","a","n","d"," ","s","e","c","u","r",
               "i","t","y"," ","g","u","i","d","e","l","i","n","e","s">>],
    [alts  |-> <<<<"a","w","s">>,
                <<"a","z","u","r","e">>,
                <<"g","c","p">>,
                <<"c","l","o","u","d">>>>,
     value |-> <<"F","o","l","l","o","w"," ","c","l","o","u","d"," ","b","e","s",
               "t"," ","p","r","a","c","t","i","c","e","s"," ","f","o","r"," ",
               "s","c","a","l","a","b","i","l","i","t","y",","," ","s","e","c",
               "u","r","i","t","y",","," ","a","n","d"," ","c","o","s","t"," ",
               "o","p","t","i","m","i","z","a","t","i","o","n">>],
    [alts  |-> <<<<"d","e","v","o","p","s">>,
                <<"c","i","/","c","d">>>>,
     value |-> <<"I","m","p","l","e","m","e","n","t"," ","p","r","o","p","e","r",
               " ","C","I","/","C","D"," ","p","r","a","c","t","i","c","e","s",
               " ","w","i","t","h"," ","a","u","t","o","m","a","t","e","d"," ",
               "t","e","s","t","i","n","g"," ","a","n","d"," ","d","e","p","l",
               "o","y","m","e","n","t">>],
    [alts  |-> <<<<"m","a","c","h","i","n","e"," ","l","e","a","r","n","i","n","g">>,
                <<"m","l">>,
                <<"a","i">>>>,
     value |-> <<"U","s","e"," ","a","p","p","r","o","p","r","i","a","t","e"," ",
               "M","L"," ","f","r","a","m","e","w","o","r","k","s"," ","a","n",
               "d"," ","f","o","l","l","o","w"," ","d","a","t","a"," ","s","c",
               "i","e","n","c","e"," ","b","e","s","t"," ","p","r","a","c","t",
               "i","c","e","s">>],
    [alts  |-> <<<<"d","a","t","a"," ","s","c","i","e","n","c","e">>,
                <<"p","a","n","d","a","s">>,
                <<"n","u","m","p","y">>>>,
     value |-> <<"U","s","e"," ","p","r","o","p","e","r"," ","d","a","t","a"," ",
               "a","n","a","l","y","s","i","s"," ","t","e","c","h","n","i","q",
               "u","e","s"," ","a","n","d"," ","s","t","a","t","i","s","t","i",
               "c","a","l"," ","m","e","t","h","o","d","s">>],
    [alts  |-> <<<<"s","e","c","u","r","i","t","y">>,
                <<"a","u","t","h">>,
                <<"e","n","c","r","y","p","t","i","o","n">>>>,
     value |-> <<"F","o","l","l","o","w"," ","s","e","c","u","r","i","t","y"," ",
               "b","e","s","t"," ","p","r","a","c","t","i","c","e","s"," ","a",
               "n","d"," ","i","m","p","l","e","m","e","n","t"," ","p","r","o",
               "p","e","r"," ","a","u","t","h","e","n","t","i","c","a","t","i",
               "o","n","/","a","u","t","h","o","r","i","z","a","t","i","o","n">>],
    [alts  |-> <<<<"c","y","b","e","r","s","e","c","u","r","i","t","y">>,
                <<"p","e","n","t","e","s","t">>>>,
     value |-> <<"F","o","l","l","o","w"," ","e","t","h","i","c","a","l"," ","h",
               "a","c","k","i","n","g"," ","g","u","i","d","e","l","i","n","e",
               "s"," ","a","n","d"," ","s","e","c","u","r","i","t","y"," ","t",
               "e","s","t","i","n","g"," ","p","r","o","t","o","c","o","l","s">>],
    [alts  |-> <<<<"v","a","n","i","l","l","a">>,
                <<"p","l","a","i","n">>,
                <<"n","a","t","i","v","e">>>>,
     value |-> <<"U","s","e"," ","o","n","l","y"," ","v","a","n","i","l","l","a",
               " ","l","a","n","g","u","a","g","e"," ","f","e","a","t","u","r",
               "e","s",","," ","n","o"," ","f","r","a","m","e","w","o","r","k",
               "s"," ","o","r"," ","l","i","b","r","a","r","i","e","s">>],
    [alts  |-> <<<<"s","t","a","n","d","a","r","d"," ","l","i","b","r","a","r","y">>,
                <<"s","t","d","l","i","b">>>>,
     value |-> <<"U","s","e"," ","o","n","l","y"," ","t","h","e"," ","s","t","a",
               "n","d","a","r","d"," ","l","i","b","r","a","r","y",","," ","n",
               "o"," ","t","h","i","r","d","-","p","a","r","t","y"," ","d","e",
               "p","e","n","d","e","n","c","i","e","s">>],
    [alts  |-> <<<<"o","n","e"," ","f","i","l","e">>,
                <<"s","i","n","g","l","e"," ","f","i","l","e">>>>,
     value |-> <<"P","u","t"," ","e","v","e","r","y","t","h","i","n","g"," ","i",
               "n","t","o"," ","a"," ","s","i","n","g","l","e"," ","f","i","l",
               "e">>],
    [alts  |-> <<<<"n","o"," ","c","o","m","m","e","n","t","s">>,
                <<"w","i","t","h","o","u","t"," ","c","o","m","m","e","n","t","s">>>>,
     value |-> <<"D","o"," ","n","o","t"," ","i","n","c","l","u","d","e"," ","c",
               "o","m","m","e","n","t","s"," ","i","n"," ","t","h","e"," ","c",
               "o","d","e">>],
    [alts  |-> <<<<"w","i","t","h"," ","c","o","m","m","e","n","t","s">>,
                <<"e","x","p","l","a","i","n"," ","c","o","d","e">>>>,
     value |-> <<"A","d","d"," ","i","n","l","i","n","e"," ","c","o","m","m","e",
               "n","t","s"," ","e","x","p","l","a","i","n","i","n","g"," ","e",
               "a","c","h"," ","s","t","e","p">>],
    [alts  |-> <<<<"b","e","g","i","n","n","e","r">>,
                <<"b","a","s","i","c">>,
                <<"s","i","m","p","l","e">>>>,
     value |-> <<"K","e","e","p"," ","i","t"," ","s","i","m","p","l","e"," ","a",
               "n","d"," ","b","e","g","i","n","n","e","r","-","f","r","i","e",
               "n","d","l","y">>],
    [alts  |-> <<<<"a","d","v","a","n","c","e","d">>,
                <<"c","o","m","p","l","e","x">>,
                <<"o","p","t","i","m","i","z","e","d">>>>,
     value |-> <<"P","r","o","v","i","d","e"," ","a","n"," ","a","d","v","a","n",
               "c","e","d",","," ","o","p","t","i","m","i","z","e","d"," ","i",
               "m","p","l","e","m","e","n","t","a","t","i","o","n">>],
    [alts  |-> <<<<"r","e","a","d","a","b","l","e">>,
                <<"c","l","e","a","n">>,
                <<"m","a","i","n","t","a","i","n","a","b","l","e">>>>,
     value |-> <<"E","n","s","u","r","e"," ","t","h","e"," ","c","o","d","e"," ",
               "i","s"," ","c","l","e","a","n",","," ","r","e","a","d","a","b",
               "l","e",","," ","a","n","d"," ","m","a","i","n","t","a","i","n",
               "a","b","l","e">>],
    [alts  |-> <<<<"e","f","f","i","c","i","e","n","t">>,
                <<"p","e","r","f","o","r","m","a","n","c","e">>,
                <<"f","a","s","t">>,
                <<"o","p","t","i","m","i","z","e">>>>,
     value |-> <<"F","o","c","u","s"," ","o","n"," ","p","e","r","f","o","r","m",
               "a","n","c","e"," ","a","n","d"," ","e","f","f","i","c","i","e",
               "n","c","y">>],
    [alts  |-> <<<<"m","e","m","o","r","y">>,
                <<"l","i","g","h","t","w","e","i","g","h","t">>,
                <<"l","o","w"," ","r","e","s","o","u","r","c","e","s">>>>,
     value |-> <<"M","i","n","i","m","i","z","e"," ","m","e","m","o","r","y"," ",
               "a","n","d"," ","r","e","s","o","u","r","c","e"," ","u","s","a",
               "g","e">>],
    [alts  |-> <<<<"s","c","a","l","a","b","l","e">>,
                <<"l","a","r","g","e"," ","s","c","a","l","e">>,
                <<"b","i","g"," ","d","a","t","a">>>>,
     value |-> <<"D","e","s","i","g","n"," ","f","o","r"," ","s","c","a","l","a",
               "b","i","l","i","t","y"," ","a","n","d"," ","h","a","n","d","l",
               "i","n","g"," ","l","a","r","g","e"," ","d","a","t","a","s","e",
               "t","s">>],
    [alts  |-> <<<<"u","n","i","t"," ","t","e","s","t">>,
                <<"t","e","s","t"," ","c","a","s","e">>,
                <<"t","e","s","t","i","n","g">>>>,
     value |-> <<"I","n","c","l","u","d","e"," ","u","n","i","t"," ","t","e","s",
               "t","s"," ","f","o","r"," ","t","h","e"," ","s","o","l","u","t",
               "i","o","n">>],
    [alts  |-> <<<<"v","a","l","i","d","a","t","e">>,
                <<"c","h","e","c","k"," ","i","n","p","u","t">>,
                <<"e","r","r","o","r"," ","h","a","n","d","l","i","n","g">>>>,
     value |-> <<"A","d","d"," ","e","r","r","o","r"," ","h","a","n","d","l","i",
               "n","g"," ","a","n","d"," ","i","n","p","u","t"," ","v","a","l",
               "i","d","a","t","i","o","n">>],
    [alts  |-> <<<<"s","e","c","u","r","e">>,
                <<"e","n","c","r","y","p","t","i","o","n">>,
                <<"h","a","s","h">>,
                <<"j","w","t">>,
                <<"a","u","t","h">>,
                <<"a","u","t","h","e","n","t","i","c","a","t","i","o","n">>>>,
     value |-> <<"E","n","s","u","r","e"," ","t","h","e"," ","s","o","l","u","t",
               "i","o","n"," ","i","s"," ","s","e","c","u","r","e"," ","w","i",
               "t","h"," ","p","r","o","p","e","r"," ","e","n","c","r","y","p",
               "t","i","o","n","/","a","u","t","h","e","n","t","i","c","a","t",
               "i","o","n">>],
    [alts  |-> <<<<"s","a","n","i","t","i","z","e">>,
                <<"x","s","s">>,
                <<"s","q","l"," ","i","n","j","e","c","t","i","o","n">>>>,
     value |-> <<"P","r","e","v","e","n","t"," ","i","n","j","e","c","t","i","o",
               "n"," ","a","t","t","a","c","k","s"," ","a","n","d"," ","s","a",
               "n","i","t","i","z","e"," ","i","n","p","u","t","s">>],
    [alts  |-> <<<<"b","r","o","w","s","e","r">>,
                <<"f","r","o","n","t","e","n","d">>,
                <<"c","l","i","e","n","t"," ","s","i","d","e">>>>,
     value |-> <<"R","u","n"," ","i","n"," ","t","h","e"," ","b","r","o","w","s",
               "e","r",","," ","c","l","i","e","n","t","-","s","i","d","e"," ",
               "o","n","l","y">>],
    [alts  |-> <<<<"s","e","r","v","e","r">>,
                <<"b","a","c","k","e","n","d">>,
                <<"c","l","i">>,
                <<"c","o","m","m","a","n","d"," ","l","i","n","e">>>>,
     value |-> <<"T","a","r","g","e","t"," ","s","e","r","v","e","r","-","s","i",
               "d","e"," ","/"," ","c","o","m","m","a","n","d"," ","l","i","n",
               "e"," ","u","s","a","g","e">>],
    [alts  |-> <<<<"c","r","o","s","s"," ","p","l","a","t","f","o","r","m">>,
                <<"p","o","r","t","a","b","l","e">>>>,
     value |-> <<"E","n","s","u","r","e"," ","i","t"," ","w","o","r","k","s"," ",
               "a","c","r","o","s","s"," ","p","l","a","t","f","o","r","m","s",
               " ","(","W","i","n","d","o","w","s",","," ","m","a","c","O","S",
               ","," ","L","i","n","u","x",")">>],
    [alts  |-> <<<<"o","p","e","n"," ","s","o","u","r","c","e">>,
                <<"f","r","e","e">>>>,
     value |-> <<"U","s","e"," ","o","n","l","y"," ","o","p","e","n","-","s","o",
               "u","r","c","e"," ","o","r"," ","f","r","e","e"," ","t","o","o",
               "l","s">>],
    [alts  |-> <<<<"c","o","m","m","e","r","c","i","a","l">>,
                <<"e","n","t","e","r","p","r","i","s","e">>>>,
     value |-> <<"M","a","k","e"," ","i","t"," ","s","u","i","t","a","b","l","e",
               " ","f","o","r"," ","p","r","o","d","u","c","t","i","o","n","/",
               "e","n","t","e","r","p","r","i","s","e"," ","u","s","e">>],
    [alts  |-> <<<<"n","o"," ","l","i","b","r","a","r","y">>,
                <<"n","o"," ","l","i","b","r","a","r","i","e","s">>,
                <<"n","o"," ","e","x","t","e","r","n","a","l">>,
                <<"n","o"," ","d","e","p","e","n","d","e","n","c","i","e","s">>>>,
     value |-> <<"U","s","e"," ","o","n","l","y"," ","b","u","i","l","t","-","i",
               "n"," ","f","e","a","t","u","r","e","s",","," ","n","o"," ","e",
               "x","t","e","r","n","a","l"," ","l","i","b","r","a","r","i","e",
               "s">>],
    [alts  |-> <<<<"m","o","d","e","r","n">>,
                <<"l","a","t","e","s","t">>,
                <<"e","s","6">>,
                <<"e","s","2","0","2","0">>>>,
     value |-> <<"U","s","e"," ","m","o","d","e","r","n"," ","J","a","v","a","S",
               "c","r","i","p","t","/","T","y","p","e","S","c","r","i","p","t",
               " ","f","e","a","t","u","r","e","s">>]
  >>

\* the table of detectTone
tonePatterns ==
  <<
    [alts  |-> <<<<"s","t","e","p"," ","b","y"," ","s","t","e","p">>,
                <<"t","u","t","o","r","i","a","l">>,
                <<"g","u","i","d","e">>>>,
     value |-> <<"E","x","p","l","a","i","n"," ","s","t","e","p"," ","b","y"," ",
               "s","t","e","p",","," ","l","i","k","e"," ","a"," ","t","u","t",
               "o","r","i","a","l">>],
    [alts  |-> <<<<"s","u","m","m","a","r","y">>,
                <<"o","v","e","r","v","i","e","w">>,
                <<"o","u","t","l","i","n","e">>>>,
     value |-> <<"G","i","v","e"," ","a"," ","h","i","g","h","-","l","e","v","e",
               "l"," ","s","u","m","m","a","r","y",","," ","n","o","t"," ","d",
               "e","e","p"," ","d","e","t","a","i","l","s">>],
    [alts  |-> <<<<"b","e","g","i","n","n","e","r">>,
                <<"e","a","s","y">>,
                <<"s","i","m","p","l","e">>>>,
     value |-> <<"B","e","g","i","n","n","e","r","-","f","r","i","e","n","d","l",
               "y",","," ","w","i","t","h"," ","p","l","a","i","n"," ","l","a",
               "n","g","u","a","g","e">>],
    [alts  |-> <<<<"a","d","v","a","n","c","e","d">>,
                <<"e","x","p","e","r","t">>,
                <<"d","e","e","p"," ","d","i","v","e">>>>,
     value |-> <<"A","d","v","a","n","c","e","d",","," ","t","e","c","h","n","i",
               "c","a","l",","," ","a","n","d"," ","i","n","-","d","e","p","t",
               "h">>],
    [alts  |-> <<<<"c","a","s","u","a","l">>,
                <<"f","r","i","e","n","d","l","y">>,
                <<"f","u","n">>>>,
     value |-> <<"U","s","e"," ","a"," ","c","a","s","u","a","l",","," ","a","p",
               "p","r","o","a","c","h","a","b","l","e"," ","s","t","y","l","e">>],
    [alts  |-> <<<<"f","o","r","m","a","l">>,
                <<"a","c","a","d","e","m","i","c">>,
                <<"r","e","s","e","a","r","c","h">>>>,
     value |-> <<"F","o","r","m","a","l"," ","a","n","d"," ","a","c","a","d","e",
               "m","i","c"," ","t","o","n","e">>],
    [alts  |-> <<<<"s","t","o","r","y">>,
                <<"a","n","a","l","o","g","y">>,
                <<"e","x","a","m","p","l","e">>>>,
     value |-> <<"E","x","p","l","a","i","n"," ","w","i","t","h"," ","a","n","a",
               "l","o","g","i","e","s"," ","o","r"," ","e","x","a","m","p","l",
               "e","s">>],
    [alts  |-> <<<<"i","n","s","t","r","u","c","t","i","o","n">>,
                <<"s","t","e","p","s">>,
                <<"h","o","w"," ","t","o">>>>,
     value |-> <<"G","i","v","e"," ","c","l","e","a","r"," ","i","n","s","t","r",
               "u","c","t","i","o","n","s"," ","i","n"," ","l","i","s","t"," ",
               "f","o","r","m">>],
    [alts  |-> <<<<"c","o","d","e"," ","o","n","l","y">>,
                <<"j","u","s","t"," ","c","o","d","e">>,
                <<"n","o"," ","e","x","p","l","a","n","a","t","i","o","n">>>>,
     value |-> <<"P","r","o","v","i","d","e"," ","o","n","l","y"," ","t","h","e",
               " ","c","o","d","e",","," ","n","o"," ","e","x","p","l","a","n",
               "a","t","i","o","n","s">>],
    [alts  |-> <<<<"c","o","m","m","e","n","t","e","d">>,
                <<"e","x","p","l","a","i","n"," ","c","o","d","e">>>>,
     value |-> <<"A","d","d"," ","c","o","m","m","e","n","t","s"," ","a","n","d",
               " ","i","n","l","i","n","e"," ","e","x","p","l","a","n","a","t",
               "i","o","n","s"," ","i","n","s","i","d","e"," ","t","h","e"," ",
               "c","o","d","e">>],
    [alts  |-> <<<<"p","r","o","d","u","c","t","i","o","n">>,
                <<"e","n","t","e","r","p","r","i","s","e">>,
                <<"s","c","a","l","a","b","l","e">>>>,
     value |-> <<"P","r","o","f","e","s","s","i","o","n","a","l",","," ","r","o",
               "b","u","s","t",","," ","p","r","o","d","u","c","t","i","o","n",
               "-","r","e","a","d","y"," ","s","t","y","l","e">>],
    [alts  |-> <<<<"p","r","o","t","o","t","y","p","e">>,
                <<"d","e","m","o">>,
                <<"q","u","i","c","k"," ","t","e","s","t">>>>,
     value |-> <<"F","a","s","t",","," ","l","i","g","h","t","w","e","i","g","h",
               "t",","," ","p","r","o","t","o","t","y","p","e"," ","s","t","y",
               "l","e">>],
    [alts  |-> <<<<"d","e","t","a","i","l","e","d">>,
                <<"d","e","t","a","i","l">>,
                <<"t","h","o","r","o","u","g","h">>>>,
     value |-> <<"P","r","o","v","i","d","e"," ","d","e","t","a","i","l","e","d",
               " ","e","x","p","l","a","n","a","t","i","o","n","s">>],
    [alts  |-> <<<<"q","u","i","c","k">>,
                <<"b","r","i","e","f">>,
                <<"s","h","o","r","t">>>>,
     value |-> <<"K","e","e","p"," ","i","t"," ","c","o","n","c","i","s","e"," ",
               "a","n","d"," ","t","o"," ","t","h","e"," ","p","o","i","n","t">>],
    [alts  |-> <<<<"e","x","p","l","a","i","n">>,
                <<"e","x","p","l","a","n","a","t","i","o","n">>,
                <<"u","n","d","e","r","s","t","a","n","d">>>>,
     value |-> <<"I","n","c","l","u","d","e"," ","c","l","e","a","r"," ","e","x",
               "p","l","a","n","a","t","i","o","n","s">>],
    [alts  |-> <<<<"p","r","o","f","e","s","s","i","o","n","a","l">>>>,
     value |-> <<"P","r","o","f","e","s","s","i","o","n","a","l",","," ","p","r",
               "o","d","u","c","t","i","o","n","-","r","e","a","d","y"," ","a",
               "p","p","r","o","a","c","h">>],
    [alts  |-> <<<<"w","e","b","s","i","t","e">>,
                <<"w","e","b">>,
                <<"f","o","r"," ","m","e">>>>,
     value |-> <<"C","l","e","a","r",","," ","c","o","n","c","i","s","e",","," ",
               "a","n","d"," ","b","e","g","i","n","n","e","r","-","f","r","i",
               "e","n","d","l","y">>]
  >>

\* the if chain of inferRoleFromTask, in order
roleInferences ==
  <<
    [alts  |-> <<<<"w","e","b","s","i","t","e">>,
                <<"w","e","b">>,
                <<"h","t","m","l">>,
                <<"c","s","s">>,
                <<"f","r","o","n","t","e","n","d">>,
                <<"w","e","b","p","a","g","e">>>>,
     value |-> <<"A","n"," ","e","x","p","e","r","i","e","n","c","e","d"," ","f",
               "u","l","l","-","s","t","a","c","k"," ","w","e","b"," ","d","e",
               "v","e","l","o","p","e","r">>],
    [alts  |-> <<<<"c","o","d","e">>,
                <<"p","r","o","g","r","a","m">>,
                <<"s","c","r","i","p","t">>,
                <<"f","u","n","c","t","i","o","n">>,
                <<"c","l","a","s","s">>,
                <<"d","e","b","u","g">>,
                <<"i","m","p","l","e","m","e","n","t">>>>,
     value |-> <<"A"," ","s","k","i","l","l","e","d"," ","s","o","f","t","w","a",
               "r","e"," ","d","e","v","e","l","o","p","e","r">>],
    [alts  |-> <<<<"d","a","t","a">>,
                <<"a","n","a","l","y","z","e">>,
                <<"c","h","a","r","t">>,
                <<"g","r","a","p","h">>,
                <<"s","t","a","t","i","s","t","i","c","s">>,
                <<"c","s","v">>,
                <<"e","x","c","e","l">>>>,
     value |-> <<"A"," ","d","a","t","a"," ","a","n","a","l","y","s","t">>],
    [alts  |-> <<<<"d","e","s","i","g","n">>,
                <<"u","i">>,
                <<"u","x">>,
                <<"l","a","y","o","u","t">>,
                <<"c","o","l","o","r">>,
                <<"s","t","y","l","e">>>>,
     value |-> <<"A"," ","U","I","/","U","X"," ","d","e","s","i","g","n","e","r">>],
    [alts  |-> <<<<"w","r","i","t","e">>,
                <<"d","o","c","u","m","e","n","t">>,
                <<"e","x","p","l","a","i","n">>,
                <<"d","e","s","c","r","i","b","e">>,
                <<"e","s","s","a","y">>,
                <<"a","r","t","i","c","l","e">>>>,
     value |-> <<"A"," ","t","e","c","h","n","i","c","a","l"," ","w","r","i","t",
               "e","r">>]
  >>

\* the if chain of inferOutputFormatFromTask, in order
formatInferences ==
  <<
    [alts  |-> <<<<"w","e","b","s","i","t","e">>,
                <<"w","e","b">>,
                <<"h","t","m","l">>>>,
     value |-> <<"C","o","m","p","l","e","t","e"," ","N","e","x","t",".","j","s",
               " ","c","o","d","e"," ","i","n"," ","s","e","p","a","r","a","t",
               "e"," ","c","o","d","e"," ","b","l","o","c","k","s">>],
    [alts  |-> <<<<"c","o","d","e">>,
                <<"p","r","o","g","r","a","m">>,
                <<"s","c","r","i","p","t">>,
                <<"f","u","n","c","t","i","o","n">>>>,
     value |-> <<"C","l","e","a","n",","," ","w","e","l","l","-","c","o","m","m",
               "e","n","t","e","d"," ","c","o","d","e"," ","i","n"," ","a"," ",
               "m","a","r","k","d","o","w","n"," ","c","o","d","e"," ","b","l",
               "o","c","k">>],
    [alts  |-> <<<<"s","t","e","p">>,
                <<"g","u","i","d","e">>,
                <<"t","u","t","o","r","i","a","l">>,
                <<"h","o","w"," ","t","o">>>>,
     value |-> <<"S","t","e","p","-","b","y","-","s","t","e","p"," ","n","u","m",
               "b","e","r","e","d"," ","l","i","s","t"," ","w","i","t","h"," ",
               "e","x","p","l","a","n","a","t","i","o","n","s">>],
    [alts  |-> <<<<"l","i","s","t">>,
                <<"o","p","t","i","o","n","s">>,
                <<"c","h","o","i","c","e","s">>>>,
     value |-> <<"B","u","l","l","e","t","e","d"," ","l","i","s","t"," ","f","o",
               "r","m","a","t">>],
    [alts  |-> <<<<"e","x","p","l","a","i","n">>,
                <<"d","e","s","c","r","i","b","e">>,
                <<"w","h","a","t"," ","i","s">>>>,
     value |-> <<"C","l","e","a","r"," ","e","x","p","l","a","n","a","t","i","o",
               "n"," ","w","i","t","h"," ","e","x","a","m","p","l","e","s">>]
  >>

\* a pattern loop in which the last matching row wins
firstPattern_Last(table, text) ==
  LET hits == {n \in 1..Len(table) : testAlternation(table[n].alts, text)}
  IN  IF hits = {} THEN None ELSE Some(table[MaxOf(hits)].value)

\* for (const { pattern, ... } of table) if (pattern.test(text)) return ...
firstPattern(table, text) ==
  LET hits == {n \in 1..Len(table) : testAlternation(table[n].alts, text)}
  IN  IF hits = {} THEN None ELSE Some(table[MinOf(hits)].value)

detectRole(lowercaseText) == firstPattern(rolePatterns, lowercaseText)
detectOutputFormat(lowercaseText) == firstPattern(formatPatterns, lowercaseText)
detectConstraints(lowercaseText) == firstPattern(constraintPatterns, lowercaseText)
detectTone(lowercaseText) == firstPattern(tonePatterns, lowercaseText)

inferRoleFromTask(task) == firstPattern(roleInferences, toLowerCase(task))
inferOutputFormatFromTask(task) ==
  firstPattern(formatInferences, toLowerCase(task))

WebsiteTask ==
  <<"C","r","e","a","t","e"," ","a"," ","m","o","d","e","r",
     "n",","," ","r","e","s","p","o","n","s","i","v","e"," ",
     "w","e","b","s","i","t","e"," ","f","o","r"," ","m","e">>
DefaultTask ==
  <<"H","e","l","p"," ","m","e"," ","w","i","t","h"," ","m",
     "y"," ","r","e","q","u","e","s","t">>
DefaultTone ==
  <<"P","r","o","f","e","s","s","i","o","n","a","l"," ","a",
     "n","d"," ","h","e","l","p","f","u","l">>
RoleNote ==
  <<"I","n","f","e","r","r","e","d"," ","r","o","l","e",":",
     " ">>
FormatNote ==
  <<"I","n","f","e","r","r","e","d"," ","o","u","t","p","u",
     "t"," ","f","o","r","m","a","t",":"," ">>
ToneNote ==
  <<"A","p","p","l","i","e","d"," ","d","e","f","a","u","l",
     "t"," ","t","o","n","e",":"," ","P","r","o","f","e","s",
     "s","i","o","n","a","l"," ","a","n","d"," ","h","e","l",
     "p","f","u","l">>

\* /create.*website/i.test(cleaned): "." does not match a line break
createsWebsite(cleaned) ==
  \E i \in 1..Len(cleaned), j \in 1..Len(cleaned) :
    /\ LitAtNoCase(cleaned, <<"c","r","e","a","t","e">>, i)
    /\ LitAtNoCase(cleaned, <<"w","e","b","s","i","t","e">>, j)
    /\ j >= i + 6
    /\ \A k \in (i + 6)..(j - 1) : cleaned[k] # "\n"

extractMainTask(text) ==
  LET cleaned == trim(text)
  IN  IF Len(cleaned) = 0 THEN <<>>
      ELSE IF createsWebsite(cleaned) THEN WebsiteTask
      ELSE <<toUpperChar(cleaned[1])>> \o Drop(cleaned, 2)
             \o (IF cleaned[Len(cleaned)] = "." THEN <<>> ELSE <<".">>)

\* const components: any = {}
NoComponents ==
  [task |-> None, role |-> None, constraints |-> None, examples |-> None,
   outputFormat |-> None, tone |-> None, inferredMissingDetails |-> None]

\* lowercaseText.includes(keyword) for some keyword
hasTaskKeyword(text) ==
  \E k \in 1..Len(taskKeywords) : includes(toLowerCase(text), taskKeywords[k])

\* an analyzer that runs the detectors whatever the text holds
analyzePromptComponents_NoGate(text) ==
  [NoComponents EXCEPT
     !.task = IF hasTaskKeyword(text) THEN Some(extractMainTask(text)) ELSE None,
     !.role = detectRole(toLowerCase(text)),
     !.outputFormat = detectOutputFormat(toLowerCase(text)),
     !.constraints = detectConstraints(toLowerCase(text)),
     !.tone = detectTone(toLowerCase(text))]

analyzePromptComponents(text) ==
  LET lowercaseText == toLowerCase(text)
  IN  IF hasTaskKeyword(text)
        THEN [NoComponents EXCEPT
                !.task = Some(extractMainTask(text)),
                !.role = detectRole(lowercaseText),
                !.outputFormat = detectOutputFormat(lowercaseText),
                !.constraints = detectConstraints(lowercaseText),
                !.tone = detectTone(lowercaseText)]
        ELSE NoComponents

\* the result object and the two inferences of
\* applyDefaultsForMissingComponents, before the tone default
defaultsBeforeTone(analysis) ==
  LET task   == IF Truthy(analysis.task) THEN analysis.task[1] ELSE DefaultTask
      notes0 == IF analysis.inferredMissingDetails # None
                  THEN analysis.inferredMissingDetails[1] ELSE <<>>
      role   == IF task # <<>> /\ ~Truthy(analysis.role)
                  THEN inferRoleFromTask(task) ELSE analysis.role
      notes1 == IF task # <<>> /\ ~Truthy(analysis.role) /\ Truthy(role)
                  THEN Append(notes0, RoleNote \o role[1]) ELSE notes0
      format == IF task # <<>> /\ ~Truthy(analysis.outputFormat)
                  THEN inferOutputFormatFromTask(task)
                  ELSE analysis.outputFormat
      notes2 == IF /\ task # <<>>
                   /\ ~Truthy(analysis.outputFormat)
                   /\ Truthy(format)
                  THEN Append(notes1, FormatNote \o format[1]) ELSE notes1
  IN  [task |-> task, role |-> role, constraints |-> analysis.constraints,
       examples |-> analysis.examples, outputFormat |-> format,
       tone |-> analysis.tone, inferredMissingDetails |-> notes2]

\* defaults that leave a missing tone missing
applyDefaultsForMissingComponents_NoTone(analysis) ==
  defaultsBeforeTone(analysis)

\* defaults that record the tone note first
applyDefaultsForMissingComponents_ToneFirst(analysis) ==
  LET r == defaultsBeforeTone(analysis)
  IN  IF ~Truthy(r.tone)
        THEN [r EXCEPT !.tone = Some(DefaultTone),
                       !.inferredMissingDetails = <<ToneNote>> \o @]
        ELSE r

applyDefaultsForMissingComponents(analysis) ==
  LET r == defaultsBeforeTone(analysis)
  IN  IF ~Truthy(r.tone)
        THEN [r EXCEPT !.tone = Some(DefaultTone),
                       !.inferredMissingDetails = Append(@, ToneNote)]
        ELSE r

\* a merge that takes the parsed object whether or not it has a task
mergeEnrichment_NoTaskCheck(parsed, localAnalysis) ==
  IF parsed # None
    THEN LET p == parsed[1]
         IN  [task |-> IF Truthy(p.task) THEN p.task ELSE localAnalysis.task,
              role |-> IF Truthy(p.role) THEN p.role ELSE localAnalysis.role,
              constraints |-> IF Truthy(p.constraints) THEN p.constraints
                              ELSE localAnalysis.constraints,
              examples |-> IF Truthy(p.examples) THEN p.examples
                           ELSE localAnalysis.examples,
              outputFormat |-> IF Truthy(p.outputFormat) THEN p.outputFormat
                               ELSE localAnalysis.outputFormat,
              tone |-> IF Truthy(p.tone) THEN p.tone ELSE localAnalysis.tone,
              inferredMissingDetails |->
                IF p.inferredMissingDetails # None
                  THEN p.inferredMissingDetails ELSE Some(<<>>)]
    ELSE localAnalysis

\* what enrichWithGemini returns: the parsed reply merged with the local
\* analysis when the reply holds a JSON object with a task, the local
\* analysis in every other case (no reply, no JSON, no task)
mergeEnrichment(parsed, localAnalysis) ==
  IF parsed # None /\ Truthy(parsed[1].task)
    THEN LET p == parsed[1]
         IN  [task |-> p.task,
              role |-> IF Truthy(p.role) THEN p.role ELSE localAnalysis.role,
              constraints |-> IF Truthy(p.constraints) THEN p.constraints
                              ELSE localAnalysis.constraints,
              examples |-> IF Truthy(p.examples) THEN p.examples
                           ELSE localAnalysis.examples,
              outputFormat |-> IF Truthy(p.outputFormat) THEN p.outputFormat
                               ELSE localAnalysis.outputFormat,
              tone |-> IF Truthy(p.tone) THEN p.tone ELSE localAnalysis.tone,
              inferredMissingDetails |->
                IF p.inferredMissingDetails # None
                  THEN p.inferredMissingDetails ELSE Some(<<>>)]
    ELSE localAnalysis

(* ------------------------------------------------------------------ *)
(* The chat participant @clarity (extension.ts)                       *)
(* ------------------------------------------------------------------ *)
\* one invocation of handleChatRequest: its locals, its cancellation
\* token, what it gave to the stream, what it returned, and the
\* follow-ups offered for its result
NoRequest ==
  [pc |-> "idle", prompt |-> <<>>, userPrompt |-> <<>>, corrected |-> <<>>,
   cancelled |-> FALSE, improvedPrompt |-> <<>>, metadata |-> "none",
   buttons |-> <<>>, steps |-> <<>>, followups |-> None]

\* the invocations of handleChatRequest that may be in flight together
Requests == {"A", "B"}

\* a handler that reads the configuration before it looks at the prompt
startRequest_ConfigFirst(requestPrompt, contextString, config) ==
  LET userPrompt == trim(requestPrompt)
      injected   == userPrompt \o contextString
  IN  IF ~validateApiKey(config)
        THEN [NoRequest EXCEPT !.pc = "done", !.prompt = requestPrompt,
                               !.userPrompt = userPrompt,
                               !.steps = <<"getConfig">>,
                               !.metadata = "no_api_key"]
      ELSE IF userPrompt = <<>>
        THEN [NoRequest EXCEPT !.pc = "done", !.prompt = requestPrompt,
                               !.steps = <<"getConfig">>,
                               !.metadata = "empty_prompt"]
      ELSE [NoRequest EXCEPT !.pc = "fetching", !.prompt = requestPrompt,
                             !.userPrompt = injected,
                             !.corrected = applyLocalCorrections(injected),
                             !.steps = <<"getConfig", "injectContextIfEnabled",
                                         "applyLocalCorrections", "getConfig",
                                         "fetch">>]

\* handleChatRequest from its entry to its first return or to the await
\* of the fetch inside improvePrompt.  contextString is what
\* generateContextString produced; the prompts given are no template
\* requests.  The second argument of improvePrompt is the conversation
\* context, an object, so the remote client is always called; the key
\* the client reads is the one the handler has just validated.
startRequest(requestPrompt, contextString, config) ==
  LET userPrompt == trim(requestPrompt)
      injected   == userPrompt \o contextString
  IN  IF userPrompt = <<>>
        THEN [NoRequest EXCEPT !.pc = "done", !.prompt = requestPrompt,
                               !.metadata = "empty_prompt"]
      ELSE IF ~validateApiKey(config)
        THEN [NoRequest EXCEPT !.pc = "done", !.prompt = requestPrompt,
                               !.userPrompt = injected,
                               !.steps = <<"injectContextIfEnabled",
                                           "getConfig">>,
                               !.metadata = "no_api_key"]
      ELSE [NoRequest EXCEPT !.pc = "fetching", !.prompt = requestPrompt,
                             !.userPrompt = injected,
                             !.corrected = applyLocalCorrections(injected),
                             !.steps = <<"injectContextIfEnabled", "getConfig",
                                         "applyLocalCorrections", "getConfig",
                                         "fetch">>]

\* the two buttons of an improved prompt
actionButtons(improved) ==
  << [command |-> "clarity.forwardToCopilot", arguments |-> <<improved>>],
     [command |-> "clarity.copyPrompt", arguments |-> <<improved>>] >>

\* the rest of handleChatRequest once improvePrompt has returned improved
finishRequest(request, improved) ==
  IF improved = request.userPrompt
    THEN [request EXCEPT !.pc = "done", !.improvedPrompt = improved,
                         !.metadata = "no_changes"]
    ELSE [request EXCEPT !.pc = "done", !.improvedPrompt = improved,
                         !.metadata = "improved",
                         !.buttons = actionButtons(improved)]

\* a handler that stores the result before it compares it
storeLast_BeforeCompare(request, improved, last) == improved

\* the module variable lastEnhancedPrompt after the same lines
storeLast(request, improved, last) ==
  IF improved = request.userPrompt THEN last ELSE improved

\* followupProvider.provideFollowups: two fixed suggestions, or five that
\* quote the module variable
followupsFor(last) ==
  IF last = <<>>
    THEN [suggestions |-> 2, quoted |-> <<>>]
    ELSE [suggestions |-> 5, quoted |-> last]

(* ------------------------------------------------------------------ *)
(* Forwarding to Copilot (forward.ts)                                 *)
(* ------------------------------------------------------------------ *)
\* the prefix of the query handed to the chat
CopilotPrefix == <<"@","c","o","p","i","l","o","t"," ">>

\* the awaited calls of the four try blocks, in order; the timers between
\* them cannot fail and are left out
forwardMethods ==
  << <<"workbench.action.chat.open">>,
     <<"workbench.view.chat", "workbench.action.chat.insertAtCursor">>,
     <<"workbench.view.chat", "workbench.action.chat.sendMessage">>,
     <<"workbench.panel.chat.view.copilot.focus", "clipboard.writeText">> >>

\* the number the model gives to the last-resort block
LastResort == Len(forwardMethods) + 1

\* one invocation of forwardToCopilot: who called it, its argument, the
\* try block and the call it is suspended at, the calls it has issued,
\* how they settled, and the errors array
NoForward ==
  [pc |-> "idle", caller |-> "none", improvedPrompt |-> <<>>, method |-> 0,
   step |-> 0, attempts |-> <<>>, outcomes |-> <<>>, errors |-> <<>>,
   message |-> ""]

\* forwardToCopilot up to its first await
startForward(improvedPrompt, caller) ==
  [NoForward EXCEPT
     !.pc = "running", !.caller = caller, !.improvedPrompt = improvedPrompt,
     !.method = 1, !.step = 1,
     !.attempts = <<[method |-> 1, command |-> forwardMethods[1][1]]>>]

\* the call the invocation is suspended at
pendingCommand(fwd) == fwd.attempts[Len(fwd.attempts)].command

\* a forwardToCopilot that resolves when the last-resort copy succeeds
commandSettled_ResolveOnCopy(fwd, ok) ==
  LET m == fwd.method
      k == fwd.step
      settled == [fwd EXCEPT !.outcomes = Append(@, ok)]
  IN  IF m = LastResort
        THEN IF ok
               THEN [settled EXCEPT !.pc = "resolved"]
               ELSE [settled EXCEPT
                       !.pc = "rejected",
                       !.message = "Complete failure: clipboard error"]
      ELSE IF ok /\ k = Len(forwardMethods[m])
        THEN [settled EXCEPT !.pc = "resolved"]
      ELSE IF ok
        THEN [settled EXCEPT
                !.step = k + 1,
                !.attempts = Append(@, [method |-> m,
                                        command |-> forwardMethods[m][k + 1]])]
      ELSE IF m < Len(forwardMethods)
        THEN [settled EXCEPT
                !.method = m + 1, !.step = 1, !.errors = Append(@, m),
                !.attempts = Append(@, [method |-> m + 1,
                                        command |-> forwardMethods[m + 1][1]])]
      ELSE [settled EXCEPT
              !.method = LastResort, !.step = 1, !.errors = Append(@, m),
              !.attempts = Append(@, [method |-> LastResort,
                                      command |-> "clipboard.writeText"])]

\* the invocation resumes: the call it awaited has resolved (ok) or
\* rejected.  A rejection ends the try block and starts the next one; the
\* last-resort block throws whether or not its copy succeeded.
commandSettled(fwd, ok) ==
  LET m == fwd.method
      k == fwd.step
      settled == [fwd EXCEPT !.outcomes = Append(@, ok)]
  IN  IF m = LastResort
        THEN [settled EXCEPT
                !.pc = "rejected",
                !.message = IF ok
                  THEN "Complete failure: Error: All 4 forwarding methods failed"
                  ELSE "Complete failure: clipboard error"]
      ELSE IF ok /\ k = Len(forwardMethods[m])
        THEN [settled EXCEPT !.pc = "resolved"]
      ELSE IF ok
        THEN [settled EXCEPT
                !.step = k + 1,
                !.attempts = Append(@, [method |-> m,
                                        command |-> forwardMethods[m][k + 1]])]
      ELSE IF m < Len(forwardMethods)
        THEN [settled EXCEPT
                !.method = m + 1, !.step = 1, !.errors = Append(@, m),
                !.attempts = Append(@, [method |-> m + 1,
                                        command |-> forwardMethods[m + 1][1]])]
      ELSE [settled EXCEPT
              !.method = LastResort, !.step = 1, !.errors = Append(@, m),
              !.attempts = Append(@, [method |-> LastResort,
                                      command |-> "clipboard.writeText"])]

\* the clipboard after the awaited call has settled: the fourth block
\* writes the prefixed prompt, the last-resort block the plain one
clipboardAfter(fwd, ok, clip) ==
  IF ok /\ pendingCommand(fwd) = "clipboard.writeText"
    THEN IF fwd.method = LastResort
           THEN fwd.improvedPrompt
           ELSE CopilotPrefix \o fwd.improvedPrompt
    ELSE clip

\* one invocation of the handleChatRequest that knows the two modes
NoHandler ==
  [pc |-> "idle", mode |-> "confirmation", userPrompt |-> <<>>,
   improvedPrompt |-> <<>>, shown |-> FALSE, forwardCalls |-> 0,
   buttons |-> <<>>, metadata |-> "none"]

(* ------------------------------------------------------------------ *)
(* Inputs of the orchestrator model                                   *)
(* ------------------------------------------------------------------ *)
P_blank == <<" ">>
P_teh == <<"t","e","h">>
P_TEH_bug == <<"f","i","x"," ","T","E","H"," ","b","u","g">>
P_a_apple == <<"a"," ","a","p","p","l","e">>
P_website == <<"m","a","k","e"," ","a"," ","w","e","b","s","i","t","e">>
P_fine ==
  <<"T","h","i","s"," ","i","s"," ","a","l","r","e","a","d",
     "y"," ","f","i","n","e",".">>
P_leading == <<" "," ","w","r","i","t"," ","c","o","d","e">>
P_lines ==
  <<"f","i","x"," ","i","t",".","\n","t","h","e","n"," ","t",
     "e","s","t">>
PromptSamples == {<<>>, P_blank, P_teh, P_TEH_bug, P_a_apple, P_website, P_fine, P_leading, P_lines}

R_blank == <<" "," ">>
R_intro_only ==
  <<"H","e","r","e","'","s"," ","t","h","e"," ","e","n","h",
     "a","n","c","e","d"," ","p","r","o","m","p","t",":">>
R_labelled ==
  <<"E","n","h","a","n","c","e","d"," ","p","r","o","m","p",
     "t",":"," ","B","u","i","l","d"," ","a"," ","r","e","s",
     "p","o","n","s","i","v","e"," ","l","a","n","d","i","n",
     "g"," ","p","a","g","e",".">>
R_short == <<"F","i","x"," ","i","t",".">>
R_padded ==
  <<" ","C","r","e","a","t","e"," ","a"," ","m","o","d","e",
     "r","n",","," ","r","e","s","p","o","n","s","i","v","e",
     " ","w","e","b","s","i","t","e","."," ">>
R_destroyed ==
  <<"O","k","a","y",","," ","I"," ","h","a","v","e"," ","l",
     "o","o","k","e","d"," ","a","t"," ","w","h","a","t"," ",
     "y","o","u"," ","w","r","o","t","e"," ","a","n","d"," ",
     "t","h","o","u","g","h","t"," ","a","b","o","u","t"," ",
     "i","t","."," ","F","i","x"," ","i","t",".">>
ReplySamples == {<<>>, R_blank, R_intro_only, R_labelled, R_short, R_padded, R_destroyed}

ApiKeys == {<<>>, <<" ">>, <<"k", "1">>}
DefaultApiKeys == {<<>>, <<"d", "0">>}

\* bounds on the conversation context a caller hands to the client
MaxTodos == 6
MaxProjectContext == 2
MaxActions == 4
MaxMessages == 3

Entries(kind, n) == [i \in 1..n |-> kind \o ToString(i)]

Contexts ==
  { [defined |-> TRUE,
     previousMessages |-> Entries("message", m),
     todos |-> Entries("todo", t),
     projectContext |-> Entries("project", p),
     lastActions |-> Entries("action", a)] :
       m \in 0..MaxMessages, t \in 0..MaxTodos,
       p \in 0..MaxProjectContext, a \in 0..MaxActions }

Candidate(hasContent, hasParts, parts) ==
  [hasContent |-> hasContent, hasParts |-> hasParts, parts |-> parts]

HttpResponse(ok, status, errorText, validJson, hasCandidates, candidates) ==
  [received |-> TRUE, ok |-> ok, status |-> status, errorText |-> errorText,
   validJson |-> validJson, hasCandidates |-> hasCandidates,
   candidates |-> candidates]

NoResponse ==
  [received |-> FALSE, ok |-> FALSE, status |-> 0, errorText |-> "",
   validJson |-> FALSE, hasCandidates |-> FALSE, candidates |-> <<>>]

ErrorResponses ==
  { HttpResponse(FALSE, s, b, FALSE, FALSE, <<>>) :
      s \in {400, 429, 500}, b \in {"", "quota exceeded"} }

MalformedResponses ==
  { HttpResponse(TRUE, 200, "", FALSE, FALSE, <<>>),
    HttpResponse(TRUE, 200, "", TRUE, FALSE, <<>>),
    HttpResponse(TRUE, 200, "", TRUE, TRUE, <<>>),
    HttpResponse(TRUE, 200, "", TRUE, TRUE, <<Candidate(FALSE, FALSE, <<>>)>>),
    HttpResponse(TRUE, 200, "", TRUE, TRUE, <<Candidate(TRUE, FALSE, <<>>)>>),
    HttpResponse(TRUE, 200, "", TRUE, TRUE, <<Candidate(TRUE, TRUE, <<>>)>>),
    HttpResponse(TRUE, 200, "", TRUE, TRUE,
                 <<Candidate(TRUE, TRUE, <<>>),
                   Candidate(TRUE, TRUE, <<R_labelled>>)>>) }

TextResponses ==
  { HttpResponse(TRUE, 200, "", TRUE, TRUE, <<Candidate(TRUE, TRUE, <<r>>)>>) :
      r \in ReplySamples }
  \cup
  { HttpResponse(TRUE, 200, "", TRUE, TRUE,
                 <<Candidate(TRUE, TRUE, <<R_labelled, <<>> >>),
                   Candidate(FALSE, FALSE, <<>>)>>) }

Responses == ErrorResponses \cup MalformedResponses \cup TextResponses

(* ------------------------------------------------------------------ *)
(* State                                                              *)
(* ------------------------------------------------------------------ *)
VARIABLES
  userApiKey,      \* the clarity.geminiApiKey setting
  defaultApiKey,   \* DEFAULT_CONFIG.GEMINI_API_KEY
  pc,              \* "idle", "fetching" (suspended at await fetch), "done"
  caller,          \* who called callExternalLLM: "improvePrompt" or "direct"
  prompt,          \* the argument of the running call
  useExternalLLM,  \* the flag given to improvePrompt
  improvedPrompt,  \* improvePrompt's local after step 1
  llmPrompt,       \* the prompt argument of callExternalLLM
  llmConfig,       \* the config callExternalLLM read
  llmContext,      \* the context argument of callExternalLLM
  contextInfo,     \* the context block placed in the request
  response,        \* what fetch resolved with
  llm,             \* how callExternalLLM settled
  result,          \* how improvePrompt settled
  log,             \* the steps of the running call, in order
  classifyPc,      \* parseAndClassifyPrompt: "idle" or "done"
  classifyPrompt,  \* the prompt given to parseAndClassifyPrompt
  classifyRemote,  \* its useExternalLLM flag
  localAnalysis,   \* step 1: what analyzePromptComponents returned
  enrichment,      \* step 2: the object parsed from the remote reply, if any
  enrichedAnalysis,\* step 2: the analysis after the optional enrichment
  finalStructure,  \* step 3: what parseAndClassifyPrompt returned
  lastEnhancedPrompt, \* the module variable of extension.ts
  chat,            \* the invocations of handleChatRequest
  mode,            \* the clarity.mode setting
  handler,         \* the invocation of the handler that knows the modes
  forward,         \* the invocation of forwardToCopilot
  clipboard        \* vscode.env.clipboard

vars == <<userApiKey, defaultApiKey, pc, caller, prompt, useExternalLLM,
          improvedPrompt, llmPrompt, llmConfig, llmContext, contextInfo,
          response, llm, result, log,
          classifyPc, classifyPrompt, classifyRemote, localAnalysis,
          enrichment, enrichedAnalysis, finalStructure, lastEnhancedPrompt,
          chat, mode, handler, forward, clipboard>>

configVars == <<userApiKey, defaultApiKey>>

callVars == <<pc, caller, prompt, useExternalLLM, improvedPrompt, llmPrompt,
              llmConfig, llmContext, contextInfo, response, llm, result, log>>

analyzerVars == <<classifyPc, classifyPrompt, classifyRemote, localAnalysis,
                  enrichment, enrichedAnalysis, finalStructure>>

chatVars == <<lastEnhancedPrompt, chat>>

deliveryVars == <<mode, handler, forward, clipboard>>

\* the variables the orchestrator and the client never touch
otherVars == <<analyzerVars, chatVars, deliveryVars>>

\* the StructuredPrompt of a call that has not returned
NoStructure ==
  [task |-> <<>>, role |-> None, constraints |-> None, examples |-> None,
   outputFormat |-> None, tone |-> None, inferredMissingDetails |-> <<>>]

Init ==
  /\ userApiKey \in ApiKeys
  /\ defaultApiKey \in DefaultApiKeys
  /\ pc = "idle"
  /\ caller = "none"
  /\ prompt = <<>>
  /\ useExternalLLM = FALSE
  /\ improvedPrompt = <<>>
  /\ llmPrompt = <<>>
  /\ llmConfig = [geminiApiKey |-> <<>>]
  /\ llmContext = NoContext
  /\ contextInfo = buildContextInfo(NoContext)
  /\ response = NoResponse
  /\ llm = Pending
  /\ result = Pending
  /\ log = <<>>
  /\ classifyPc = "idle"
  /\ classifyPrompt = <<>>
  /\ classifyRemote = FALSE
  /\ localAnalysis = NoComponents
  /\ enrichment = None
  /\ enrichedAnalysis = NoComponents
  /\ finalStructure = NoStructure
  /\ lastEnhancedPrompt = <<>>
  /\ chat = [r \in Requests |-> NoRequest]
  /\ mode = "confirmation"
  /\ handler = NoHandler
  /\ forward = NoForward
  /\ clipboard = <<>>

\* updateConfig('geminiApiKey', k)
updateConfig(k) ==
  /\ pc = "idle"
  /\ userApiKey' = k
  /\ UNCHANGED <<defaultApiKey, pc, caller, prompt, useExternalLLM,
                 improvedPrompt, llmPrompt, llmConfig, llmContext,
                 contextInfo, response, llm, result, log>>
  /\ UNCHANGED otherVars

\* a client that issues the request without validating the key
callExternalLLM_NoValidation(p, context, who, steps) ==
  /\ caller' = who
  /\ llmPrompt' = p
  /\ llmConfig' = getConfig(userApiKey, defaultApiKey)
  /\ llmContext' = context
  /\ response' = NoResponse
  /\ contextInfo' = buildContextInfo(context)
  /\ log' = steps \o <<"callExternalLLM", "fetch">>
  /\ llm' = Pending
  /\ pc' = "fetching"

\* the synchronous start of callExternalLLM(p, context): read and validate
\* the configuration, build the request, issue the fetch
callExternalLLM(p, context, who, steps) ==
  LET config == getConfig(userApiKey, defaultApiKey)
  IN  /\ caller' = who
      /\ llmPrompt' = p
      /\ llmConfig' = config
      /\ llmContext' = context
      /\ response' = NoResponse
      /\ IF validateApiKey(config)
           THEN /\ contextInfo' = buildContextInfo(context)
                /\ log' = steps \o <<"callExternalLLM", "fetch">>
                /\ llm' = Pending
                /\ pc' = "fetching"
           ELSE /\ contextInfo' = buildContextInfo(NoContext)
                /\ log' = steps \o <<"callExternalLLM">>
                /\ llm' = missingKeyError
                /\ pc' = "done"

\* improvePrompt that calls the client whatever the flag says
improvePrompt_AlwaysRemote(x, u) ==
  LET corrected == applyLocalCorrections(x)
  IN  /\ pc = "idle"
      /\ prompt' = x
      /\ useExternalLLM' = u
      /\ improvedPrompt' = corrected
      /\ IF u \/ ~u
           THEN /\ callExternalLLM(corrected, NoContext, "improvePrompt",
                                   <<"applyLocalCorrections">>)
                /\ result' = IF pc' = "done"
                               THEN improvePromptResult(corrected, llm')
                               ELSE Pending
           ELSE /\ result' = Returned(trim(corrected))
                /\ log' = <<"applyLocalCorrections">>
                /\ pc' = "done"
                /\ caller' = "improvePrompt"
                /\ UNCHANGED <<llmPrompt, llmConfig, llmContext, contextInfo,
                               response, llm>>
      /\ UNCHANGED <<configVars, otherVars>>

\* improvePrompt that hands the raw prompt to the client
improvePrompt_RawToClient(x, u) ==
  LET corrected == applyLocalCorrections(x)
  IN  /\ pc = "idle"
      /\ prompt' = x
      /\ useExternalLLM' = u
      /\ improvedPrompt' = corrected
      /\ IF u
           THEN /\ callExternalLLM(x, NoContext, "improvePrompt",
                                   <<"applyLocalCorrections">>)
                /\ result' = IF pc' = "done"
                               THEN improvePromptResult(corrected, llm')
                               ELSE Pending
           ELSE /\ result' = Returned(trim(corrected))
                /\ log' = <<"applyLocalCorrections">>
                /\ pc' = "done"
                /\ caller' = "improvePrompt"
                /\ UNCHANGED <<llmPrompt, llmConfig, llmContext, contextInfo,
                               response, llm>>
      /\ UNCHANGED <<configVars, otherVars>>

\* improvePrompt(x, u) up to its return or its await
improvePrompt(x, u) ==
  LET corrected == applyLocalCorrections(x)
  IN  /\ pc = "idle"
      /\ prompt' = x
      /\ useExternalLLM' = u
      /\ improvedPrompt' = corrected
      /\ IF u
           THEN /\ callExternalLLM(corrected, NoContext, "improvePrompt",
                                   <<"applyLocalCorrections">>)
                /\ result' = IF pc' = "done"
                               THEN improvePromptResult(corrected, llm')
                               ELSE Pending
           ELSE /\ result' = Returned(trim(corrected))
                /\ log' = <<"applyLocalCorrections">>
                /\ pc' = "done"
                /\ caller' = "improvePrompt"
                /\ UNCHANGED <<llmPrompt, llmConfig, llmContext, contextInfo,
                               response, llm>>
      /\ UNCHANGED <<configVars, otherVars>>

\* a caller that hands a conversation context to the client
callWithContext(p, context) ==
  /\ pc = "idle"
  /\ prompt' = p
  /\ callExternalLLM(p, context, "direct", <<>>)
  /\ UNCHANGED <<useExternalLLM, improvedPrompt, result>>
  /\ UNCHANGED <<configVars, otherVars>>

\* the client call settles with outcome; improvePrompt, when it is the
\* caller, resumes from its await
settle(outcome) ==
  /\ llm' = outcome
  /\ pc' = "done"
  /\ result' = IF caller = "improvePrompt"
                 THEN improvePromptResult(improvedPrompt, outcome)
                 ELSE result

\* fetch rejects (network failure)
fetchRejects ==
  /\ pc = "fetching"
  /\ settle(handleFetchError)
  /\ UNCHANGED <<caller, prompt, useExternalLLM, improvedPrompt, llmPrompt,
                 llmConfig, llmContext, contextInfo, response, log>>
  /\ UNCHANGED <<configVars, otherVars>>

\* fetch resolves with resp
fetchResolves(resp) ==
  /\ pc = "fetching"
  /\ response' = resp
  /\ settle(handleResponse(resp))
  /\ UNCHANGED <<caller, prompt, useExternalLLM, improvedPrompt, llmPrompt,
                 llmConfig, llmContext, contextInfo, log>>
  /\ UNCHANGED <<configVars, otherVars>>

\* the caller has consumed the outcome; the call's data is discarded
finish ==
  /\ pc = "done"
  /\ pc' = "idle"
  /\ caller' = "none"
  /\ prompt' = <<>>
  /\ useExternalLLM' = FALSE
  /\ improvedPrompt' = <<>>
  /\ llmPrompt' = <<>>
  /\ llmConfig' = [geminiApiKey |-> <<>>]
  /\ llmContext' = NoContext
  /\ contextInfo' = buildContextInfo(NoContext)
  /\ response' = NoResponse
  /\ llm' = Pending
  /\ result' = Pending
  /\ log' = <<>>
  /\ UNCHANGED <<configVars, otherVars>>

Next ==
  \/ \E k \in ApiKeys : updateConfig(k)
  \/ \E x \in PromptSamples, u \in BOOLEAN : improvePrompt(x, u)
  \/ \E c \in Contexts : callWithContext(P_website, c)
  \/ fetchRejects
  \/ \E resp \in Responses : fetchResolves(resp)
  \/ finish

Spec == Init /\ [][Next]_vars

(* ------------------------------------------------------------------ *)
(* The analyzer on generated texts                                    *)
(* ------------------------------------------------------------------ *)
\* the words the generated texts are made of
AnalyzerWords ==
  { <<"a">>,
    <<"w","e","b","s","i","t","e">>,
    <<"b","l","u","e">>,
    <<"w","r","i","t","e">>,
    <<"c","o","d","e">>,
    <<"f","i","x">> }

\* the number of words of a generated text
MaxWords == 2

\* words.join(' ')
RECURSIVE JoinWords(_)
JoinWords(ws) ==
  IF Len(ws) = 0 THEN <<>>
  ELSE IF Len(ws) = 1 THEN ws[1]
  ELSE ws[1] \o <<" ">> \o JoinWords(Tail(ws))

T_make_a_website == <<"m","a","k","e"," ","a"," ","w","e","b","s","i","t","e">>
T_blue_sky_today == <<"b","l","u","e"," ","s","k","y"," ","t","o","d","a","y">>
T_create_website == <<"P","l","e","a","s","e"," ","c","r","e","a","t","e"," ","m","y"," ","w","e","b","s","i","t","e">>
T_react_native == <<"b","u","i","l","d"," ","r","e","a","c","t"," ","n","a","t","i","v","e"," ","a","p","p">>

AnalyzerTexts ==
  { JoinWords(ws) : ws \in UNION { [1..n -> AnalyzerWords] : n \in 0..MaxWords } }
  \cup {T_make_a_website, T_blue_sky_today, T_create_website, T_react_native}

\* the JSON objects a reply can hold, as JSON.parse returns them
ParsedReplies ==
  { [NoComponents EXCEPT !.task = t, !.role = r, !.tone = o,
                         !.inferredMissingDetails = d] :
      t \in {None, Some(<<"B","u","i","l","d"," ","a"," ","s","i","t","e">>)},
      r \in {None, Some(<<>>), Some(<<"A"," ","t","e","a","c","h","e","r">>)},
      o \in {None, Some(<<"F","r","i","e","n","d","l","y">>)},
      d \in {None, Some(<<<<"A","s","s","u","m","e","d"," ","a"," ","s","t","a","t","i","c"," ","s","i","t","e">>>>)} }

\* what the enrichment call yields: no usable reply (the client threw, or
\* the reply held no JSON object), or a parsed object
Enrichments == {None} \cup {Some(p) : p \in ParsedReplies}

\* parseAndClassifyPrompt(x, u); parsed is what the enrichment call yields
parseAndClassifyPrompt(x, u, parsed) ==
  LET analysis == analyzePromptComponents(x)
      enriched == IF u THEN mergeEnrichment(parsed, analysis) ELSE analysis
  IN  /\ classifyPc = "idle"
      /\ classifyPc' = "done"
      /\ classifyPrompt' = x
      /\ classifyRemote' = u
      /\ localAnalysis' = analysis
      /\ enrichment' = IF u THEN parsed ELSE None
      /\ enrichedAnalysis' = enriched
      /\ finalStructure' = applyDefaultsForMissingComponents(enriched)
      /\ UNCHANGED <<configVars, callVars, chatVars, deliveryVars>>

\* the caller has consumed the structure
classified ==
  /\ classifyPc = "done"
  /\ classifyPc' = "idle"
  /\ classifyPrompt' = <<>>
  /\ classifyRemote' = FALSE
  /\ localAnalysis' = NoComponents
  /\ enrichment' = None
  /\ enrichedAnalysis' = NoComponents
  /\ finalStructure' = NoStructure
  /\ UNCHANGED <<configVars, callVars, chatVars, deliveryVars>>

NextAnalyze ==
  \/ \E x \in AnalyzerTexts : parseAndClassifyPrompt(x, FALSE, None)
  \/ \E x \in AnalyzerTexts, parsed \in Enrichments :
       parseAndClassifyPrompt(x, TRUE, parsed)
  \/ classified

InitAnalyze ==
  /\ Init
  /\ userApiKey = <<>>
  /\ defaultApiKey = <<>>

SpecAnalyze == InitAnalyze /\ [][NextAnalyze]_vars

(* ------------------------------------------------------------------ *)
(* The corrector on generated texts                                   *)
(* ------------------------------------------------------------------ *)
\* the pieces the generated texts are made of
CorrectorTokens ==
  { <<"t","e","h">>,
    <<"T","e","h">>,
    <<"T","E","H">>,
    <<"t","E","H">>,
    <<"a","n">>,
    <<"a">>,
    <<" ">>,
    <<"e">>,
    <<"E">>,
    <<"_">>,
    <<".">> }

\* the number of pieces of a generated text
MaxTokens == 3

RECURSIVE Flatten(_)
Flatten(seqs) ==
  IF seqs = <<>> THEN <<>> ELSE Head(seqs) \o Flatten(Tail(seqs))

P_anadditional == <<"a","n","a","d","d","i","t","i","o","n","a","l">>
\* a misspelt word next to a longer word that contains the same letters
P_teh_tehe == <<"t","e","h"," ","t","e","h","e">>
\* the prompt of the user flow of the product requirements
P_plese ==
  <<"p","l","e","s","e"," ","w","r","i","t"," ","a"," ","f",
     "u","n","c","t","o","i","n"," ","t","a","h","t"," ","c",
     "a","l","u","c","l","a","t","e","s"," ","f","i","b","o",
     "n","n","a","c","i">>
\* a capitalized text whose second sentence starts in lower case
P_hello_world == <<"H","e","l","l","o","."," ","w","o","r","l","d">>

\* articles before a vowel and before a consonant
P_an_apple == <<"a","n"," ","a","p","p","l","e">>
P_an_cat == <<"a","n"," ","c","a","t">>
P_a_cat == <<"a"," ","c","a","t">>

CorrectorInputs ==
  { Flatten(ts) : ts \in UNION { [1..n -> CorrectorTokens] : n \in 0..MaxTokens } }
  \cup {P_anadditional, P_teh_tehe, P_plese, P_hello_world, P_fine}
  \cup {P_lines, P_leading, P_a_apple, P_an_apple, P_an_cat, P_a_cat}

InitCorrect ==
  /\ Init
  /\ userApiKey = <<>>
  /\ defaultApiKey = <<>>

NextCorrect ==
  \/ \E x \in CorrectorInputs : improvePrompt(x, FALSE)
  \/ finish

SpecCorrect == InitCorrect /\ [][NextCorrect]_vars

(* ------------------------------------------------------------------ *)
(* The client on generated replies                                    *)
(* ------------------------------------------------------------------ *)
Pay_short == <<"F","i","x"," ","i","t",".">>
Pay_19 ==
  <<"B","u","i","l","d"," ","a"," ","l","o","g","i","n"," ",
     "f","o","r","m",".">>
Pay_20 ==
  <<"B","u","i","l","d"," ","a"," ","s","i","g","n","u","p",
     " ","f","o","r","m",".">>
Pay_long ==
  <<"C","r","e","a","t","e"," ","a"," ","m","o","d","e","r",
     "n",","," ","r","e","s","p","o","n","s","i","v","e"," ",
     "w","e","b","s","i","t","e",".">>
Intro_here ==
  <<"H","e","r","e","'","s"," ","t","h","e"," ","e","n","h",
     "a","n","c","e","d"," ","p","r","o","m","p","t",":">>
Intro_label ==
  <<"E","n","h","a","n","c","e","d"," ","p","r","o","m","p",
     "t",":"," ">>
Opener_okay ==
  <<"O","k","a","y",","," ","h","e","r","e"," ","i","t"," ",
     "i","s","."," ">>
Opener_sure == <<"S","u","r","e","!","\n">>

ReplyLeads    == {<<>>, <<" ">>}
ReplyIntros   == {<<>>, Intro_here, Intro_label}
ReplyOpeners  == {<<>>, Opener_okay, Opener_sure}
ReplyQuotes   == {<<>>, <<"\"">>}
ReplyPayloads == {<<>>, Pay_short, Pay_19, Pay_20, Pay_long}

\* replies in which a cleaning step could apply twice or out of order
Reply_two_labels ==
  <<"E","n","h","a","n","c","e","d"," ","p","r","o","m","p",
     "t",":"," ","I","m","p","r","o","v","e","d"," ","p","r",
     "o","m","p","t",":"," ","C","r","e","a","t","e"," ","a",
     " ","m","o","d","e","r","n",","," ","r","e","s","p","o",
     "n","s","i","v","e"," ","w","e","b","s","i","t","e",".">>
Reply_list_order ==
  <<"I","m","p","r","o","v","e","d"," ","p","r","o","m","p",
     "t",":"," ","d","r","a","f","t","."," ","E","n","h","a",
     "n","c","e","d"," ","p","r","o","m","p","t",":"," ","C",
     "r","e","a","t","e"," ","a"," ","m","o","d","e","r","n",
     ","," ","r","e","s","p","o","n","s","i","v","e"," ","w",
     "e","b","s","i","t","e",".">>
Reply_two_openers ==
  <<"O","k","a","y","."," ","S","u","r","e","."," ","C","r",
     "e","a","t","e"," ","a"," ","m","o","d","e","r","n",",",
     " ","r","e","s","p","o","n","s","i","v","e"," ","w","e",
     "b","s","i","t","e",".">>
Reply_quoted_opener ==
  <<"\"","O","k","a","y",","," ","h","e","r","e"," ","i","t",
     " ","i","s","."," ","C","r","e","a","t","e"," ","a"," ",
     "m","o","d","e","r","n",","," ","r","e","s","p","o","n",
     "s","i","v","e"," ","w","e","b","s","i","t","e",".","\"">>
ReplySequences ==
  {Reply_two_labels, Reply_list_order, Reply_two_openers, Reply_quoted_opener}

GeneratedReplies ==
  { l \o i \o o \o q1 \o pl \o q2 :
      l \in ReplyLeads, i \in ReplyIntros, o \in ReplyOpeners,
      q1 \in ReplyQuotes, pl \in ReplyPayloads, q2 \in ReplyQuotes }
  \cup ReplySequences

GeneratedResponses ==
  { HttpResponse(TRUE, 200, "", TRUE, TRUE, <<Candidate(TRUE, TRUE, <<r>>)>>) :
      r \in GeneratedReplies }

InitClean ==
  /\ Init
  /\ userApiKey = <<"k", "1">>
  /\ defaultApiKey = <<>>

NextClean ==
  \/ improvePrompt(P_website, TRUE)
  \/ \E resp \in GeneratedResponses : fetchResolves(resp)
  \/ finish

SpecClean == InitClean /\ [][NextClean]_vars

(* ------------------------------------------------------------------ *)
(* Chat requests                                                      *)
(* ------------------------------------------------------------------ *)
\* what generateContextString returns: nothing, or the project block
\* (its leading pictograph is left out)
ProjectContext ==
  <<"\n","\n","*","*","P","r","o","j","e","c","t"," ","C","o","n","t",
    "e","x","t",":","*","*","\n","-"," ","B","u","i","l","d",":"," ",
    "v","i","t","e">>
ContextStrings == {<<>>, ProjectContext}

ChatPrompts == {<<>>, P_blank, P_teh, P_fine}

ChatResponses ==
  { HttpResponse(FALSE, 500, "", FALSE, FALSE, <<>>),
    HttpResponse(TRUE, 200, "", TRUE, TRUE, <<Candidate(TRUE, TRUE, <<P_fine>>)>>),
    HttpResponse(TRUE, 200, "", TRUE, TRUE, <<Candidate(TRUE, TRUE, <<R_padded>>)>>) }

\* @clarity is invoked with prompt p
handleChatRequest(r, p, contextString) ==
  /\ chat[r].pc = "idle"
  /\ chat' = [chat EXCEPT
                ![r] = startRequest(p, contextString,
                                    getConfig(userApiKey, defaultApiKey))]
  /\ UNCHANGED <<lastEnhancedPrompt, configVars, callVars, analyzerVars,
                 deliveryVars>>

\* the client call of request r settles with outcome; improvePrompt and
\* the handler resume
chatSettles(r, outcome) ==
  LET improved == improvePromptResult(chat[r].corrected, outcome).value
  IN  /\ chat' = [chat EXCEPT ![r] = finishRequest(chat[r], improved)]
      /\ lastEnhancedPrompt' = storeLast(chat[r], improved, lastEnhancedPrompt)

\* the fetch of request r resolves with resp
chatFetchResolves(r, resp) ==
  /\ chat[r].pc = "fetching"
  /\ chatSettles(r, handleResponse(resp))
  /\ UNCHANGED <<configVars, callVars, analyzerVars, deliveryVars>>

\* the fetch of request r rejects (network failure)
chatFetchRejects(r) ==
  /\ chat[r].pc = "fetching"
  /\ chatSettles(r, handleFetchError)
  /\ UNCHANGED <<configVars, callVars, analyzerVars, deliveryVars>>

\* the user stops request r while its fetch is outstanding: the token
\* handed to the handler reports the cancellation
cancelRequest(r) ==
  /\ chat[r].pc = "fetching"
  /\ ~chat[r].cancelled
  /\ chat' = [chat EXCEPT ![r].cancelled = TRUE]
  /\ UNCHANGED <<lastEnhancedPrompt, configVars, callVars, analyzerVars,
                 deliveryVars>>

\* the chat view asks for the follow-ups of the result of request r
provideFollowups(r) ==
  /\ chat[r].pc = "done"
  /\ chat[r].followups = None
  /\ chat' = [chat EXCEPT ![r].followups = Some(followupsFor(lastEnhancedPrompt))]
  /\ UNCHANGED <<lastEnhancedPrompt, configVars, callVars, analyzerVars,
                 deliveryVars>>

NextChat ==
  \/ \E r \in Requests, p \in ChatPrompts, c \in ContextStrings :
       handleChatRequest(r, p, c)
  \/ \E r \in Requests : chatFetchRejects(r)
  \/ \E r \in Requests, resp \in ChatResponses : chatFetchResolves(r, resp)
  \/ \E r \in Requests : cancelRequest(r)
  \/ \E r \in Requests : provideFollowups(r)

InitChat ==
  /\ Init
  /\ defaultApiKey = <<>>

SpecChat == InitChat /\ [][NextChat]_vars

(* ------------------------------------------------------------------ *)
(* Delivery of the enhanced prompt (extension.ts, forward.ts)         *)
(* ------------------------------------------------------------------ *)
DeliveryPrompts == {<<>>, P_blank, P_teh, P_fine}

\* how the client call of improvePrompt settles when it is made
DeliveryOutcomes ==
  { handleFetchError,
    handleResponse(HttpResponse(TRUE, 200, "", TRUE, TRUE,
                                <<Candidate(TRUE, TRUE, <<R_padded>>)>>)) }

\* clarity.switchToInstantMode
switchToInstantMode ==
  /\ mode' = "instant"
  /\ UNCHANGED <<handler, forward, clipboard, configVars, callVars,
                 analyzerVars, chatVars>>

\* clarity.switchToConfirmationMode
switchToConfirmationMode ==
  /\ mode' = "confirmation"
  /\ UNCHANGED <<handler, forward, clipboard, configVars, callVars,
                 analyzerVars, chatVars>>

\* the handler with the two modes, from its entry to its return or to
\* the await of forwardToCopilot.  u is the useExternalLLM setting and
\* outcome how the client call settles; the await of improvePrompt
\* touches nothing the delivery reads and is taken in the same step.
handleChatRequestWithMode(p, u, outcome) ==
  LET userPrompt == trim(p)
      config     == getConfig(userApiKey, defaultApiKey)
      corrected  == applyLocalCorrections(userPrompt)
      settled    == IF validateApiKey(config) THEN outcome ELSE missingKeyError
      improved   == IF u THEN improvePromptResult(corrected, settled).value
                         ELSE trim(corrected)
      read       == [NoHandler EXCEPT !.pc = "done", !.mode = mode,
                                      !.userPrompt = userPrompt]
  IN  /\ handler.pc = "idle"
      /\ forward.pc # "running"
      /\ IF userPrompt = <<>>
           THEN /\ handler' = [NoHandler EXCEPT !.pc = "done",
                                                !.metadata = "empty_prompt"]
                /\ UNCHANGED forward
         ELSE IF improved = userPrompt
           THEN /\ handler' = [read EXCEPT !.improvedPrompt = improved,
                                           !.metadata = "no_changes"]
                /\ UNCHANGED forward
         ELSE IF mode = "instant"
           THEN /\ handler' = [read EXCEPT !.pc = "forwarding",
                                           !.improvedPrompt = improved,
                                           !.shown = TRUE,
                                           !.forwardCalls = 1]
                /\ forward' = startForward(improved, "handler")
         ELSE /\ handler' = [read EXCEPT !.improvedPrompt = improved,
                                         !.shown = TRUE,
                                         !.buttons = actionButtons(improved),
                                         !.metadata = "improved"]
              /\ UNCHANGED forward
      /\ UNCHANGED <<mode, clipboard, configVars, callVars, analyzerVars,
                     chatVars>>

\* the call forwardToCopilot is suspended at settles
forwardCommandSettles(ok) ==
  /\ forward.pc = "running"
  /\ forward' = commandSettled(forward, ok)
  /\ clipboard' = clipboardAfter(forward, ok, clipboard)
  /\ UNCHANGED <<mode, handler, configVars, callVars, analyzerVars, chatVars>>

\* the handler resumes from await forwardToCopilot: it returns, or it
\* enters the catch block and awaits the clipboard
forwardReturns ==
  /\ handler.pc = "forwarding"
  /\ forward.caller = "handler"
  /\ forward.pc \in {"resolved", "rejected"}
  /\ handler' = IF forward.pc = "resolved"
                  THEN [handler EXCEPT !.pc = "done", !.metadata = "improved"]
                  ELSE [handler EXCEPT !.pc = "copying"]
  /\ UNCHANGED <<mode, forward, clipboard, configVars, callVars,
                 analyzerVars, chatVars>>

\* the clipboard write of the catch block settles; a rejection leaves
\* the catch block and reaches the outer catch of the handler
handlerCopySettles(ok) ==
  /\ handler.pc = "copying"
  /\ handler' = IF ok
                  THEN [handler EXCEPT
                          !.pc = "done", !.metadata = "improved",
                          !.buttons = <<[command |-> "workbench.view.chat",
                                         arguments |-> <<>>]>>]
                  ELSE [handler EXCEPT !.pc = "done",
                                       !.metadata = "processing_error"]
  /\ clipboard' = IF ok THEN handler.improvedPrompt ELSE clipboard
  /\ UNCHANGED <<mode, forward, configVars, callVars, analyzerVars, chatVars>>

\* the user clicks Send to Copilot: the clarity.forwardToCopilot command
\* runs with the argument of the button
clickSendToCopilot ==
  /\ handler.pc = "done"
  /\ forward.pc = "idle"
  /\ \E i \in 1..Len(handler.buttons) :
       /\ handler.buttons[i].command = "clarity.forwardToCopilot"
       /\ forward' = startForward(handler.buttons[i].arguments[1], "command")
  /\ UNCHANGED <<mode, handler, clipboard, configVars, callVars,
                 analyzerVars, chatVars>>

\* the command resumes from await forwardToCopilot; in its catch block it
\* copies the prompt (the focus call after it changes nothing modelled)
commandReturns(ok) ==
  /\ forward.caller = "command"
  /\ forward.pc \in {"resolved", "rejected"}
  /\ forward' = [forward EXCEPT !.caller = "none"]
  /\ clipboard' = IF forward.pc = "rejected" /\ ok
                    THEN forward.improvedPrompt ELSE clipboard
  /\ UNCHANGED <<mode, handler, configVars, callVars, analyzerVars, chatVars>>

NextDeliver ==
  \/ switchToInstantMode
  \/ switchToConfirmationMode
  \/ \E p \in DeliveryPrompts, u \in BOOLEAN, o \in DeliveryOutcomes :
       handleChatRequestWithMode(p, u, o)
  \/ \E ok \in BOOLEAN : forwardCommandSettles(ok)
  \/ forwardReturns
  \/ \E ok \in BOOLEAN : handlerCopySettles(ok)
  \/ clickSendToCopilot
  \/ \E ok \in BOOLEAN : commandReturns(ok)

InitDeliver ==
  /\ Init
  /\ userApiKey = <<"k", "1">>
  /\ defaultApiKey = <<>>

SpecDeliver == InitDeliver /\ [][NextDeliver]_vars

(* ------------------------------------------------------------------ *)
(* Properties of the orchestrator and the client                      *)
(* ------------------------------------------------------------------ *)
\* number of occurrences of step e in the log
Count(steps, e) == Cardinality({i \in 1..Len(steps) : steps[i] = e})

Logged(e) == \E i \in 1..Len(log) : log[i] = e

HasNonSpace(text) == \E i \in 1..Len(text) : ~IsSpace(text[i])

\* improvePrompt was called with the remote flag and the client call failed
RemoteFailed ==
  /\ pc = "done"
  /\ caller = "improvePrompt"
  /\ useExternalLLM
  /\ llm.status = "threw"

\* C1 as stated: when the remote call fails, improvePrompt returns
\* correct(x) without throwing, and the result is never empty when x is
\* non-empty.
C1_FallbackNonEmptyInput ==
  RemoteFailed =>
    /\ result.status = "returned"
    /\ result.value = applyLocalCorrections(prompt)
    /\ (prompt # <<>> => result.value # <<>>)

\* C1 (amended): when the remote call fails, improvePrompt returns
\* correct(x) without throwing, and the result is never empty when x has a
\* character that is not white space.
C1_FallbackNonBlankInput ==
  RemoteFailed =>
    /\ result.status = "returned"
    /\ result.value = applyLocalCorrections(prompt)
    /\ (HasNonSpace(prompt) => result.value # <<>>)

C1_Witness ==
  /\ RemoteFailed
  /\ response.received
  /\ HasNonSpace(prompt)
  /\ result.value # prompt

\* C2: with useRemote false improvePrompt returns correct(x) and the run
\* holds no client call and no network request.
C2_LocalOnly ==
  (caller = "improvePrompt" /\ ~useExternalLLM) =>
    /\ pc = "done"
    /\ result = Returned(applyLocalCorrections(prompt))
    /\ ~Logged("callExternalLLM")
    /\ ~Logged("fetch")
    /\ llm = Pending
    /\ ~response.received

C2_Witness ==
  /\ pc = "done"
  /\ caller = "improvePrompt"
  /\ ~useExternalLLM
  /\ HasNonSpace(prompt)
  /\ result.value # prompt
  /\ validateApiKey(getConfig(userApiKey, defaultApiKey))

\* C3: when the client succeeds improvePrompt returns the client's reply;
\* the corrector runs before the client is called and the client is handed
\* correct(x).
C3_RemoteSupersedes ==
  caller = "improvePrompt" =>
    /\ (pc = "done" /\ llm.status = "returned") => result = Returned(llm.value)
    /\ \A j \in 1..Len(log) :
         log[j] = "callExternalLLM" =>
           \E i \in 1..(j - 1) : log[i] = "applyLocalCorrections"
    /\ Logged("callExternalLLM") => llmPrompt = applyLocalCorrections(prompt)

C3_Witness ==
  /\ pc = "done"
  /\ caller = "improvePrompt"
  /\ llm.status = "returned"
  /\ result.value # applyLocalCorrections(prompt)
  /\ llmPrompt # prompt

\* C4: a client call with a blank key issues no request and fails; any
\* other call issues exactly one request, whatever its outcome.
C4_OneRequestPerCall ==
  Logged("callExternalLLM") =>
    IF trim(llmConfig.geminiApiKey) = <<>>
      THEN Count(log, "fetch") = 0 /\ llm.status = "threw" /\ pc = "done"
      ELSE Count(log, "fetch") = 1

C4_Witness ==
  /\ pc = "done"
  /\ Count(log, "fetch") = 1
  /\ llm.status = "threw"
  /\ response.received
  /\ ~response.ok

\* the reply the client accepts: success status, a first candidate with a
\* first content part, and text left after trimming
UsableResponse ==
  /\ response.received
  /\ response.ok
  /\ response.validJson
  /\ response.hasCandidates
  /\ Len(response.candidates) >= 1
  /\ response.candidates[1].hasContent
  /\ response.candidates[1].hasParts
  /\ Len(response.candidates[1].parts) >= 1
  /\ HasNonSpace(response.candidates[1].parts[1])

Mentions(message, piece) == \E i \in 1..Len(message) : message[i] = piece

\* C5: the client returns a string exactly for a usable reply; otherwise
\* it fails without a string, and the error of a non-success status holds
\* the status code and the body text.
C5_ReturnsOnlyUsableReply ==
  (pc = "done" /\ Logged("callExternalLLM")) =>
    /\ llm.status = "returned" <=> UsableResponse
    /\ ~UsableResponse => (llm.status = "threw" /\ llm.value = <<>>)
    /\ (response.received /\ ~response.ok) =>
         /\ Mentions(llm.message, ToString(response.status))
         /\ Mentions(llm.message, response.errorText)

C5_Witness ==
  /\ pc = "done"
  /\ response.received
  /\ ~response.ok
  /\ response.errorText # ""
  /\ llm.status = "threw"

\* the text of the reply the client received
ReplyText == response.candidates[1].parts[1]

\* C6: the cleaned reply is at least 20 characters long or is exactly the
\* trimmed reply; a reply that is only an introductory phrase comes back
\* as the trimmed reply.
C6_CleaningFloor ==
  (pc = "done" /\ UsableResponse) =>
    /\ llm.status = "returned"
    /\ Len(llm.value) >= 20 \/ llm.value = trim(ReplyText)
    /\ \/ Len(extractEnhancedPrompt(ReplyText)) >= 20
       \/ extractEnhancedPrompt(ReplyText) = trim(ReplyText)
    /\ trim(ReplyText) = Intro_here => llm.value = Intro_here

C6_Witness ==
  /\ pc = "done"
  /\ UsableResponse
  /\ trim(ReplyText) = Intro_here
  /\ llm.value = Intro_here
  /\ cleanedText(ReplyText) = <<>>

\* the last n entries of a sequence
LastEntries(s, n) == SubSeq(s, IF Len(s) > n THEN Len(s) - n + 1 ELSE 1, Len(s))

\* the groups C7 asks for, in the order of the block
ClaimedGroups(context) ==
  LET groups ==
        << <<"PREVIOUS TODOS/TASKS:", LastEntries(context.todos, 5)>>,
           <<"PROJECT CONTEXT:", context.projectContext>>,
           <<"RECENT ACTIONS:", LastEntries(context.lastActions, 3)>>,
           <<"RECENT CONVERSATION:", LastEntries(context.previousMessages, 2)>> >>
  IN  SelectSeq(groups, LAMBDA g : Len(g[2]) > 0)

\* C7: the context block holds the last 5 todos, all project context, the
\* last 3 actions and the last 2 messages, each non-empty group under its
\* heading, and is omitted when all four sequences are empty.
C7_ContextBlockLastEntries ==
  (pc = "fetching" /\ llmContext.defined) =>
    /\ contextInfo.present <=> ClaimedGroups(llmContext) # <<>>
    /\ Len(contextInfo.parts) = Len(ClaimedGroups(llmContext))
    /\ \A i \in 1..Len(contextInfo.parts) :
         /\ contextInfo.parts[i].heading = ClaimedGroups(llmContext)[i][1]
         /\ contextInfo.parts[i].lines = ClaimedGroups(llmContext)[i][2]

(* ------------------------------------------------------------------ *)
(* Properties of the corrector                                        *)
(* ------------------------------------------------------------------ *)
\* C8: the corrector is idempotent, correct(correct(x)) = correct(x).
C8_Idempotent ==
  (pc = "done" /\ caller = "improvePrompt") =>
    applyLocalCorrections(improvedPrompt) = improvedPrompt

\* index of the table entry whose key is word with letter case ignored,
\* 0 if there is none
TypoIndex(word) ==
  LET hits == {n \in 1..Len(COMMON_TYPOS) :
                 toLowerCase(word) = toLowerCase(COMMON_TYPOS[n][1])}
  IN  IF hits = {} THEN 0 ELSE CHOOSE n \in hits : TRUE

AllUpper(word) == \A i \in 1..Len(word) : word[i] \notin LowerSet

capitalized(word) ==
  IF word = <<>> THEN word
  ELSE <<toUpperChar(word[1])>> \o toLowerCase(Drop(word, 2))

\* the correction of a matched word in the case pattern of the match
CasedCorrection(word) ==
  LET correction == COMMON_TYPOS[TypoIndex(word)][2]
  IN  IF AllUpper(word) THEN toUpperCase(correction)
      ELSE IF word[1] \in UpperSet THEN capitalized(correction)
      ELSE toLowerCase(correction)

\* the prompt is one word of the typo table, in any letter case
PromptIsTypo ==
  /\ pc = "done"
  /\ caller = "improvePrompt"
  /\ prompt # <<>>
  /\ TypoIndex(prompt) > 0

P_the == <<"t", "h", "e">>

WordRun(s, i) == RunFrom(s, i, WordChars)

\* the word that starts at position i, replaced when it is a table key
WordAt(s, i) ==
  LET n    == IF i > 1 /\ IsWordChar(s[i - 1]) THEN 0 ELSE WordRun(s, i)
      word == SubSeq(s, i, i + n - 1)
  IN  IF n = 0 THEN NoMatch
      ELSE Match(n, IF TypoIndex(word) > 0 THEN CasedCorrection(word) ELSE word)

\* the text with every whole word that is a table key replaced, and every
\* other word and every other character kept
WholeWordsReplaced(s) == replaceAll(s, [i \in 1..Len(s) |-> WordAt(s, i)])

\* a table key occurs in s with a word character right before or after it
KeyInsideWord(s) ==
  \E n \in 1..Len(COMMON_TYPOS), i \in 1..Len(s) :
    LET key == COMMON_TYPOS[n][1]
    IN  /\ LitAtNoCase(s, key, i)
        /\ \/ (i > 1 /\ IsWordChar(s[i - 1]))
           \/ (i + Len(key) <= Len(s) /\ IsWordChar(s[i + Len(key)]))

\* C10: the typo pass replaces whole words only; a key that occurs inside
\* a longer word is left alone.
C10_WholeWordsOnly ==
  (pc = "done" /\ caller = "improvePrompt") =>
    /\ fixTypos(prompt) = WholeWordsReplaced(prompt)
    /\ prompt = P_anadditional => fixTypos(prompt) = P_anadditional

C10_Witness ==
  /\ pc = "done"
  /\ caller = "improvePrompt"
  /\ KeyInsideWord(prompt)
  /\ fixTypos(prompt) # prompt

(* ------------------------------------------------------------------ *)
(* Properties of the analyzer and the defaulting engine               *)
(* ------------------------------------------------------------------ *)
\* parseAndClassifyPrompt has returned
Classified == classifyPc = "done"

\* C11: a text that contains none of the 20 task verbs is analyzed to a
\* structure whose task, role, output format, constraints and tone are all
\* undefined; "blue sky today" yields no structured task.
C11_AnalyzerGate ==
  /\ Len(taskKeywords) = 20
  /\ (Classified /\ ~hasTaskKeyword(classifyPrompt)) =>
       /\ localAnalysis.task = None
       /\ localAnalysis.role = None
       /\ localAnalysis.outputFormat = None
       /\ localAnalysis.constraints = None
       /\ localAnalysis.tone = None
  /\ (Classified /\ classifyPrompt = T_blue_sky_today) =>
       localAnalysis.task = None

C11_Witness ==
  /\ Classified
  /\ classifyPrompt = <<"a"," ","w","e","b","s","i","t","e">>
  /\ localAnalysis = NoComponents

\* C12: whatever partial structure reaches the defaulting engine, the
\* resulting structure has a non-empty task and a non-empty tone.
C12_DefaultsTotal ==
  Classified =>
    /\ finalStructure.task # <<>>
    /\ finalStructure.tone # None
    /\ finalStructure.tone[1] # <<>>

C12_Witness ==
  /\ Classified
  /\ hasTaskKeyword(classifyPrompt)
  /\ enrichedAnalysis.tone = None
  /\ finalStructure.tone = Some(DefaultTone)

\* the field is undefined or the empty string
Absent(o) == o = None \/ o[1] = <<>>

\* the notes the claim expects for a defaulting run from before to after
ExpectedNotes(before, after) ==
  (IF Absent(before.role) /\ ~Absent(after.role)
     THEN <<RoleNote \o after.role[1]>> ELSE <<>>)
  \o (IF Absent(before.outputFormat) /\ ~Absent(after.outputFormat)
        THEN <<FormatNote \o after.outputFormat[1]>> ELSE <<>>)
  \o (IF Absent(before.tone) /\ ~Absent(after.tone)
        THEN <<ToneNote>> ELSE <<>>)

\* the structure given to the defaulting engine carries no notes
NoPriorNotes ==
  \/ enrichedAnalysis.inferredMissingDetails = None
  \/ enrichedAnalysis.inferredMissingDetails = Some(<<>>)

\* C13: on a structure without prior notes, inferredMissingDetails holds
\* exactly one note for each of role, output format and tone that was
\* absent and is now set, in that order, and none for a detected field.
C13_NotesInOrder ==
  (Classified /\ NoPriorNotes) =>
    finalStructure.inferredMissingDetails =
      ExpectedNotes(enrichedAnalysis, finalStructure)

C13_Witness ==
  /\ Classified
  /\ NoPriorNotes
  /\ classifyPrompt = <<"w","r","i","t","e"," ","c","o","d","e">>
  /\ Len(finalStructure.inferredMissingDetails) = 3

\* s starts with the literal lit
StartsWith(s, lit) == LitAt(s, lit, 1)

\* C14: "make a website" through the analyzer and the defaulting engine,
\* no remote: the role is a full-stack web development persona, the tone is
\* defaulted to "Professional and helpful", and inferredMissingDetails
\* holds three entries in the order role, format, tone.
C14_MakeAWebsite ==
  (Classified /\ classifyPrompt = T_make_a_website /\ ~classifyRemote) =>
    /\ finalStructure.role # None
    /\ includes(finalStructure.role[1],
                <<"f","u","l","l","-","s","t","a","c","k"," ","w","e","b"," ","d","e","v","e","l","o","p","e","r">>)
    /\ finalStructure.outputFormat # None
    /\ finalStructure.tone = Some(DefaultTone)
    /\ Len(finalStructure.inferredMissingDetails) = 3
    /\ StartsWith(finalStructure.inferredMissingDetails[1], RoleNote)
    /\ StartsWith(finalStructure.inferredMissingDetails[2], FormatNote)
    /\ finalStructure.inferredMissingDetails[3] = ToneNote

(* ------------------------------------------------------------------ *)
(* Properties of the corrector on whole prompts                       *)
(* ------------------------------------------------------------------ *)
\* improvePrompt has returned from a call without the remote step
LocalDone ==
  /\ pc = "done"
  /\ caller = "improvePrompt"
  /\ ~useExternalLLM
  /\ result.status = "returned"

P_plese_expected ==
  <<"P","l","e","a","s","e"," ","w","r","i","t","e"," ","a",
     " ","f","u","n","c","t","i","o","n"," ","t","h","a","t",
     " ","c","a","l","c","u","l","a","t","e","s"," ","F","i",
     "b","o","n","a","c","c","i",".">>

\* C15: the corrector maps "plese writ a functoin taht caluclates
\* fibonnaci" to "Please write a function that calculates Fibonacci.".
C15_PleseScenario ==
  (LocalDone /\ prompt = P_plese) => result.value = P_plese_expected

\* the first letter is capitalized
FirstCapital(s) == Len(s) >= 1 /\ s[1] \in UpperSet

\* every white-space character is a space, none at either end, no two
\* adjacent
SingleSpaces(s) ==
  /\ \A i \in 1..Len(s) : IsSpace(s[i]) => s[i] = " "
  /\ \A i \in 1..(Len(s) - 1) : ~(s[i] = " " /\ s[i + 1] = " ")
  /\ Len(s) >= 1 => (s[1] # " " /\ s[Len(s)] # " ")

\* a key of the typo table stands in s as a whole word, in any letter case
HasTypoWord(s) ==
  \E n \in 1..Len(COMMON_TYPOS), i \in 1..Len(s) :
    LET key == COMMON_TYPOS[n][1]
    IN  /\ LitAtNoCase(s, key, i)
        /\ ~(i > 1 /\ IsWordChar(s[i - 1]))
        /\ ~(i + Len(key) <= Len(s) /\ IsWordChar(s[i + Len(key)]))

\* normalized as the claim defines it
NormalizedAsClaimed(s) ==
  FirstCapital(s) /\ SingleSpaces(s) /\ ~HasTypoWord(s)

\* a word starts at position i
WordStart(s, i) ==
  IsWordChar(s[i]) /\ ~(i > 1 /\ IsWordChar(s[i - 1]))

\* one of the grammar rules has something to rewrite in s
GrammarApplies(s) ==
  \/ \E i \in 1..(Len(s) - 2) :
       s[i] = "a" /\ WordStart(s, i) /\ s[i + 1] = " " /\ s[i + 2] \in Vowels
  \/ \E i \in 1..(Len(s) - 1) :
       s[i] = "i" /\ WordStart(s, i) /\ s[i + 1] = " "
  \/ Len(s) >= 2 /\ s[Len(s)] = "i" /\ s[Len(s) - 1] = " "
  \/ \E i \in 1..(Len(s) - 1) :
       s[i] = " " /\ s[i + 1] \in {".", ",", "?", "!"}
  \/ \E i \in 1..(Len(s) - 2) :
       s[i] = "." /\ s[i + 1] = " " /\ s[i + 2] \in LowerSet

\* C16 as stated: without the remote step improvePrompt returns its input
\* unchanged when the first letter is capitalized, the spaces are single,
\* there is no leading or trailing white space and no typo-table word.
C16_NormalizedUnchanged ==
  (LocalDone /\ NormalizedAsClaimed(prompt)) => result.value = prompt

\* C16 (amended): the input is returned unchanged when, in addition, no
\* grammar rule applies to it: no word "a" before a space and a vowel, no
\* stand-alone lower-case "i" before a space or after the last space, no
\* space before ".", ",", "?" or "!", no lower-case letter after ". ";
\* "This is already fine." is such an input.
C16_NormalizedAndGrammaticalUnchanged ==
  /\ (LocalDone /\ NormalizedAsClaimed(prompt) /\ ~GrammarApplies(prompt)) =>
       result.value = prompt
  /\ (LocalDone /\ prompt = P_fine) => result.value = P_fine

C16_Witness ==
  /\ LocalDone
  /\ prompt = P_fine
  /\ NormalizedAsClaimed(prompt)
  /\ ~GrammarApplies(prompt)
  /\ result.value = P_fine

(* ------------------------------------------------------------------ *)
(* Properties of the chat participant                                 *)
(* ------------------------------------------------------------------ *)
\* C17: a request whose prompt is empty or only whitespace ends with the
\* empty_prompt error, and on its way the configuration was not read, the
\* corrector was not run and no network request was issued
C17_BlankRejectedFirst ==
  \A r \in Requests :
    (chat[r].pc # "idle" /\ trim(chat[r].prompt) = <<>>) =>
      /\ chat[r].pc = "done"
      /\ chat[r].metadata = "empty_prompt"
      /\ chat[r].steps = <<>>
      /\ chat[r].corrected = <<>>
      /\ chat[r].buttons = <<>>

\* C17 witness: a request with a prompt of one space has ended, while a
\* key was configured
C17_Witness ==
  \E r \in Requests :
    /\ chat[r].pc = "done"
    /\ chat[r].prompt = P_blank
    /\ chat[r].metadata = "empty_prompt"
    /\ validateApiKey(getConfig(userApiKey, defaultApiKey))

\* C18: a request cancelled while its network call was outstanding ends
\* with the normalized local text, whatever the network returned later
C18_CancelledFallsBack ==
  \A r \in Requests :
    (chat[r].pc = "done" /\ chat[r].cancelled) =>
      chat[r].improvedPrompt = trim(chat[r].corrected)

\* what a request may offer when only its own prompt is used: its own
\* enhanced prompt if it produced one, and nothing otherwise
OwnEnhancedPrompt(r) ==
  IF chat[r].metadata = "improved" THEN chat[r].improvedPrompt ELSE <<>>

\* C19: the follow-ups offered for a request quote nothing but that
\* request's own enhanced prompt
C19_FollowupsFromOwnPrompt ==
  \A r \in Requests :
    chat[r].followups # None =>
      chat[r].followups[1].quoted = OwnEnhancedPrompt(r)

\* request r returns from improvePrompt in this step
Completes(r) == chat[r].pc = "fetching" /\ chat'[r].pc = "done"

MatchingIntros(t) ==
  {n \in 1..Len(introPatterns) : searchNoCase(t, introPatterns[n]) > 0}

\* t after the earliest-listed matching pattern alone has been applied
AfterFirstListedIntro(t) ==
  IF MatchingIntros(t) = {} THEN t
  ELSE LET n == MinOf(MatchingIntros(t))
       IN  trim(Drop(t, searchNoCase(t, introPatterns[n])
                          + Len(introPatterns[n])))

\* the text the four steps give when each is applied once, in order
CleanedInOrder(reply) ==
  trim(stripQuotes(stripExplanation(AfterFirstListedIntro(trim(reply)))))

Kept_second_label ==
  <<"I","m","p","r","o","v","e","d"," ","p","r","o","m","p",
     "t",":"," ","C","r","e","a","t","e"," ","a"," ","m","o",
     "d","e","r","n",","," ","r","e","s","p","o","n","s","i",
     "v","e"," ","w","e","b","s","i","t","e",".">>
Kept_second_opener ==
  <<"S","u","r","e","."," ","C","r","e","a","t","e"," ","a",
     " ","m","o","d","e","r","n",","," ","r","e","s","p","o",
     "n","s","i","v","e"," ","w","e","b","s","i","t","e",".">>
Kept_quoted_opener ==
  <<"O","k","a","y",","," ","h","e","r","e"," ","i","t"," ",
     "i","s","."," ","C","r","e","a","t","e"," ","a"," ","m",
     "o","d","e","r","n",","," ","r","e","s","p","o","n","s",
     "i","v","e"," ","w","e","b","s","i","t","e",".">>

\* C22: the cleaned reply is the reply with the earliest-listed matching
\* introductory pattern applied alone, then one leading opener sentence
\* removed, then the wrapping quotes, then trimmed: a second label, a
\* second opener and an opener behind a quote stay in the text
C22_CleaningOrder ==
  (pc = "done" /\ UsableResponse) =>
    /\ cleanedText(ReplyText) = CleanedInOrder(ReplyText)
    /\ Len(CleanedInOrder(ReplyText)) >= MinCleanedLength =>
         llm.value = CleanedInOrder(ReplyText)
    /\ ReplyText = Reply_two_labels => llm.value = Kept_second_label
    /\ ReplyText = Reply_list_order => llm.value = Pay_long
    /\ ReplyText = Reply_two_openers => llm.value = Kept_second_opener
    /\ ReplyText = Reply_quoted_opener => llm.value = Kept_quoted_opener

\* C22 witness: a reply with two labels has been cleaned of the first
C22_Witness ==
  /\ pc = "done"
  /\ UsableResponse
  /\ ReplyText = Reply_two_labels
  /\ llm.value = Kept_second_label

\* the text that reaches the quote step of the cleaning
BeforeQuoteStep(reply) ==
  stripExplanation(AfterFirstListedIntro(trim(reply)))

\* t begins with a quote character and ends with one
QuoteDelimited(t) ==
  Len(t) >= 2 /\ t[1] \in QuoteChars /\ t[Len(t)] \in QuoteChars

\* C23: a reply that is not quote-delimited at both ends keeps the quote
\* characters it has at one end
C23_QuotesOnlyWhenWrapped ==
  (pc = "done" /\ UsableResponse
     /\ ~QuoteDelimited(BeforeQuoteStep(ReplyText))) =>
    cleanedText(ReplyText) = trim(BeforeQuoteStep(ReplyText))

(* ------------------------------------------------------------------ *)
(* Properties of the detectors                                        *)
(* ------------------------------------------------------------------ *)
\* row n of table matches text
RowMatches(table, n, text) ==
  \E k \in 1..Len(table[n].alts) :
    includes(toLowerCase(text), toLowerCase(table[n].alts[k]))

\* the value of the row that matches while no row listed before it does
EarliestListed(table, text) ==
  IF \A n \in 1..Len(table) : ~RowMatches(table, n, text) THEN None
  ELSE Some(table[CHOOSE n \in 1..Len(table) :
                    /\ RowMatches(table, n, text)
                    /\ \A m \in 1..(n - 1) : ~RowMatches(table, m, text)].value)

\* C24: each of the four detectors gives the value of the earliest-listed
\* row of its own table that matches the lower-cased text, and undefined,
\* never the empty string, when no row matches
C24_EarliestPatternWins ==
  (Classified /\ hasTaskKeyword(classifyPrompt)) =>
    /\ localAnalysis.role = EarliestListed(rolePatterns, classifyPrompt)
    /\ localAnalysis.outputFormat = EarliestListed(formatPatterns, classifyPrompt)
    /\ localAnalysis.constraints = EarliestListed(constraintPatterns, classifyPrompt)
    /\ localAnalysis.tone = EarliestListed(tonePatterns, classifyPrompt)
    /\ \A v \in {localAnalysis.role, localAnalysis.outputFormat,
                  localAnalysis.constraints, localAnalysis.tone} :
         v # Some(<<>>)

\* C24 witness: in "fix website" two rows of the role table match and the
\* role is the one of the earlier row
C24_Witness ==
  /\ Classified
  /\ hasTaskKeyword(classifyPrompt)
  /\ Cardinality({n \in 1..Len(rolePatterns) :
                    RowMatches(rolePatterns, n, classifyPrompt)}) >= 2
  /\ localAnalysis.role = Some(rolePatterns[1].value)
  /\ localAnalysis.constraints # None

\* C25: every row of the role table is the earliest-listed match of some
\* text, so every role description can be returned; a text that names
\* React Native gets the React Native role
C25_NoRoleShadowed ==
  /\ \A n \in 1..Len(rolePatterns) :
       \E k \in 1..Len(rolePatterns[n].alts) :
         detectRole(toLowerCase(rolePatterns[n].alts[k]))
           = Some(rolePatterns[n].value)
  /\ (Classified /\ classifyPrompt = T_react_native) =>
       localAnalysis.role = Some(rolePatterns[24].value)

(* ------------------------------------------------------------------ *)
(* Properties of the enrichment step                                  *)
(* ------------------------------------------------------------------ *)
\* the remote step gave nothing usable: the client threw, the reply held
\* no JSON object that parses, or the object has no task
EnrichmentUnusable == enrichment = None \/ ~Truthy(enrichment[1].task)

HasLineBreak(t) == \E i \in 1..Len(t) : t[i] = "\n"

\* C26: the corrected text has no white space at either end and no two
\* spaces in a row; a line break inside the input is still a line break
\* in the output, and no white space stands next to a line break
C26_WhitespaceNormalized ==
  LocalDone =>
    LET out == result.value
    IN  /\ out = trim(out)
        /\ \A i \in 1..(Len(out) - 1) : ~(out[i] = " " /\ out[i + 1] = " ")
        /\ HasLineBreak(trim(prompt)) => HasLineBreak(out)
        /\ \A i \in 1..Len(out) :
             out[i] = "\n" =>
               /\ i > 1 /\ ~IsSpace(out[i - 1])
               /\ i < Len(out) /\ ~IsSpace(out[i + 1])

\* C27: the corrected text does not begin with a lower-case letter, and
\* no lower-case letter stands directly after a full stop and a space
C27_SentencesCapitalized ==
  LocalDone =>
    LET out == result.value
    IN  /\ out # <<>> => out[1] \notin LowerSet
        /\ \A i \in 1..(Len(out) - 2) :
             (out[i] = "." /\ out[i + 1] = " ") => out[i + 2] \notin LowerSet

P_An_apple_expected == <<"A","n"," ","a","p","p","l","e">>
P_A_cat_expected == <<"A"," ","c","a","t">>

\* C28: "a" before a vowel becomes "an", "an" before a consonant becomes
\* "a", and an article that agrees with the next word stays as it is
C28_ArticleAgreement ==
  LocalDone =>
    /\ prompt = P_a_apple => result.value = P_An_apple_expected
    /\ prompt = P_an_cat => result.value = P_A_cat_expected
    /\ prompt = P_an_apple => result.value = P_An_apple_expected
    /\ prompt = P_a_cat => result.value = P_A_cat_expected

(* ------------------------------------------------------------------ *)
(* Properties of the delivery                                         *)
(* ------------------------------------------------------------------ *)
\* the positions in forward.attempts of the calls of try block m
AttemptsOf(m) ==
  {i \in 1..Len(forward.attempts) : forward.attempts[i].method = m}

\* a call of try block m has rejected
MethodFailed(m) ==
  \E i \in AttemptsOf(m) : i <= Len(forward.outcomes) /\ ~forward.outcomes[i]

\* every call of try block m has been issued and has resolved
MethodSucceeded(m) ==
  /\ Cardinality(AttemptsOf(m)) = Len(forwardMethods[m])
  /\ \A i \in AttemptsOf(m) :
       i <= Len(forward.outcomes) /\ forward.outcomes[i]

FourMethods == 1..Len(forwardMethods)

\* C29: the four methods end in chat.open, insertAtCursor, sendMessage
\* and the prefixed copy, in this order; a method is attempted only after
\* all methods before it have failed and nothing is attempted after a
\* success; the call resolves exactly when a method succeeds; when all
\* four fail the plain prompt is written to the clipboard and the call
\* rejects, also when that write succeeds
C29_ForwardMethodsInOrder ==
  /\ [m \in FourMethods |-> forwardMethods[m][Len(forwardMethods[m])]]
       = <<"workbench.action.chat.open",
           "workbench.action.chat.insertAtCursor",
           "workbench.action.chat.sendMessage",
           "clipboard.writeText">>
  /\ forward.pc # "idle" =>
       /\ forward.attempts[1].method = 1
       /\ \A i \in 2..Len(forward.attempts) :
            forward.attempts[i].method \in
              {forward.attempts[i - 1].method,
               forward.attempts[i - 1].method + 1}
       /\ \A i \in 1..Len(forward.attempts) :
            \A m \in 1..(forward.attempts[i].method - 1) : MethodFailed(m)
       /\ \A m \in FourMethods :
            MethodSucceeded(m) =>
              /\ forward.pc = "resolved"
              /\ forward.attempts[Len(forward.attempts)].method = m
       /\ forward.pc = "resolved" => \E m \in FourMethods : MethodSucceeded(m)
       /\ forward.pc = "rejected" => \A m \in FourMethods : MethodFailed(m)
       /\ (\A m \in FourMethods : MethodFailed(m)) =>
            /\ forward.attempts[Len(forward.attempts)]
                 = [method |-> LastResort, command |-> "clipboard.writeText"]
            /\ Len(forward.outcomes) = Len(forward.attempts) =>
                 /\ forward.pc = "rejected"
                 /\ forward.outcomes[Len(forward.outcomes)] =>
                      clipboard = forward.improvedPrompt

\* C29 witness: all four methods have failed, the last-resort copy has
\* succeeded and the call has rejected
C29_Witness ==
  /\ forward.pc = "rejected"
  /\ \A m \in FourMethods : MethodFailed(m)
  /\ forward.outcomes[Len(forward.outcomes)]
  /\ forward.improvedPrompt # <<>>
  /\ clipboard = forward.improvedPrompt

\* C21: in confirmation mode the handler does not call forwardToCopilot,
\* which then runs only for a click on the button of a returned request;
\* in instant mode the handler calls it once, after the enhanced prompt
\* has been shown, and when that call has failed the request ends as
\* improved with the prompt on the clipboard
C21_ForwardingByMode ==
  /\ handler.mode = "confirmation" =>
       /\ handler.forwardCalls = 0
       /\ forward.caller # "handler"
  /\ forward.caller = "command" =>
       /\ handler.pc = "done"
       /\ \E i \in 1..Len(handler.buttons) :
            /\ handler.buttons[i].command = "clarity.forwardToCopilot"
            /\ handler.buttons[i].arguments = <<forward.improvedPrompt>>
  /\ handler.forwardCalls <= 1
  /\ handler.forwardCalls = 1 => handler.shown
  /\ (handler.mode = "instant" /\ handler.shown) => handler.forwardCalls = 1
  /\ (handler.pc = "done" /\ handler.forwardCalls = 1
        /\ forward.pc = "rejected") =>
       /\ handler.metadata = "improved"
       /\ clipboard = handler.improvedPrompt

====
